---- MODULE Spec2Model ----
(***************************************************************************)
(* Model of live-server-lsp: the instance registry with its heartbeat      *)
(* monitor and event stream (src/src/dashboard.rs) and the workspace       *)
(* synchronisation engine of the language server (src/src/lsp.rs).         *)
(*                                                                         *)
(* Texts are sequences of Unicode scalars; a scalar is a string token and  *)
(* Width gives the number of bytes of its UTF-8 encoding, so that byte     *)
(* offsets and scalar indices are different numbers, as in the source.     *)
(***************************************************************************)
EXTENDS Integers, Sequences, FiniteSets, TLC

VARIABLES
    \* --- dashboard.rs: the coordinator ---
    registry,    \* ServerRegistry.servers: the list of (name, url) entries
    sent,        \* every Sent value handed to sender.send, in order
    target,      \* environment: how the server at each url answers /ping
    monPc,       \* heartbeat task: "sleep", "probe"
    monSnap,     \* heartbeat task: servers, the clone of the registry
    monIdx,      \* heartbeat task: position of the for loop in servers
    monItems,    \* heartbeat task: items, the entries whose probe failed
    monOk,       \* history: the result of check_server for each probed entry
    reqs,        \* the register requests being handled
    subs,        \* the /ws handlers and their clients
    nextTick,    \* seconds until the heartbeat interval's next tick
    watch,       \* history: the registered instance that stopped answering
    \* --- dashboard.rs: get_port in a preview-server process ---
    gpPc,        \* "idle", "loop", "done"
    gpData,      \* data, the list_ports response it fetched
    gpPort,      \* port, the candidate
    gpBind,      \* history: the result of the last can_open_port(port)
    \* --- lsp.rs: the language server ---
    eager,       \* Backend.eager
    checks,      \* the build: TRUE when integer overflow checks are compiled in
    folders,     \* Backend.workspace_folders: the set of workspace roots
    files,       \* for each root, LspFileService.files: uri -> text
    sigs,        \* for each root, the paths sent on LspFileService.sig
    crashed,     \* TRUE once a handler has panicked
    phase,       \* the session: "new", "ready"
    lastOp,      \* history: the last editor message handled, with the
                 \* changes it applied to a cached text
    \* --- get_byte_index_from_position on its own ---
    pText, pLine, pChar, pOut,
    \* --- dashboard.rs: the lock of the registry, step by step ---
    lock,        \* the RwLock: its writer and its number of readers
    abs,         \* history: the adds and removes replayed in lock order
    rd,          \* a ports request: its position and its response
    monPos,      \* heartbeat task: position of retain in the registry
    \* --- dashboard.rs: the requests that reach the coordinator ---
    lastReq,     \* history: the last request served and the route it took
    \* --- lsp.rs: the serve tasks and the commands ---
    svcPort,     \* for each root, the value of LspFileService.port
    tasks,       \* the tasks spawned by initialized, in order
    threads,     \* Backend.threads: the tasks whose handles it holds
    down,        \* TRUE once shutdown has returned
    busy,        \* environment: the ports other processes listen on
    opened,      \* the urls handed to webbrowser::open, in order
    cmdRes,      \* the last execute_command request and its result
    offer,       \* the command of the last code action returned
    \* --- lsp.rs: the handlers and the preview server, lock by lock ---
    mtx,         \* for each tokio Mutex, who holds it
    hs,          \* the handler calls in progress, one per slot
    gf,          \* a get_file call of the preview server
    hist,        \* history: per document, the cache writes and the signals
    nOps         \* history: the number of handler calls received

vars == <<registry, sent, target, monPc, monSnap, monIdx, monItems, monOk,
          reqs, subs, nextTick, watch, gpPc, gpData, gpPort, gpBind,
          eager, checks, folders, files, sigs, crashed, phase, lastOp,
          pText, pLine, pChar, pOut, lock, abs, rd, monPos, lastReq,
          svcPort, tasks, threads, down, busy, opened, cmdRes, offer,
          mtx, hs, gf, hist, nOps>>

dashVars == <<registry, sent, target, monPc, monSnap, monIdx, monItems, monOk,
              reqs, subs, nextTick, watch>>
portVars == <<gpPc, gpData, gpPort, gpBind>>
lspVars  == <<eager, checks, folders, files, sigs, crashed, phase, lastOp>>
posVars  == <<pText, pLine, pChar, pOut>>
linVars  == <<lock, abs, rd, monPos>>
httpVars == <<lastReq>>
srvVars  == <<svcPort, tasks, threads, down, busy, opened, cmdRes, offer>>
lkVars   == <<mtx, hs, gf, hist, nOps>>

\* ------------------------------------------------------------------------
\* Text positions (lsp.rs, get_byte_index_from_position)
\* ------------------------------------------------------------------------

\* The result of an evaluation that panicked.
Panic == -1

\* The newline scalar.
NL == "\n"

\* A scalar whose UTF-8 encoding has two bytes.
E2 == "é"

\* Number of bytes of the UTF-8 encoding of scalar c.
Width(c) == IF c = E2 THEN 2 ELSE 1

RECURSIVE ByteLen(_)
\* s.len(): the length of s in bytes.
ByteLen(s) == IF s = <<>> THEN 0 ELSE Width(Head(s)) + ByteLen(Tail(s))

\* The byte offset of the k-th scalar of s (k counted from 1), as yielded by
\* s.char_indices().
Off(s, k) == ByteLen(SubSeq(s, 1, k - 1))

\* s.char_indices().nth(n).unwrap().0: the byte offset of the scalar with
\* index n (counted from 0); the unwrap panics when s has no such scalar.
NthCharOffset(s, n) == IF n >= 0 /\ n < Len(s) THEN Off(s, n + 1) ELSE Panic

RECURSIVE CountNL(_)
\* The value of current_line when the scan has passed all of s.
CountNL(s) == IF s = <<>> THEN 0
              ELSE (IF Head(s) = NL THEN 1 ELSE 0) + CountNL(Tail(s))

RECURSIVE LineScan(_, _, _, _)
\* The for loop of index_of_first_char_in_line from the k-th scalar on, with
\* current_line = cur: the offset after the newline that makes current_line
\* equal to line, or -2 when the loop ends without returning.
LineScan(s, line, k, cur) ==
    IF k > Len(s) THEN -2
    ELSE IF s[k] = NL
         THEN IF cur + 1 = line THEN Off(s, k) + 1
              ELSE LineScan(s, line, k + 1, cur + 1)
         ELSE LineScan(s, line, k + 1, cur)

\* index_of_first_char_in_line(s, line) as [some |-> BOOLEAN, val |-> Int],
\* or Panic.  After the loop the code evaluates line - 1 on a u32: with
\* overflow checks (oc = TRUE, the debug profile) line = 0 panics; without
\* them it wraps to 2^32 - 1, which no current_line of a text of fewer than
\* 2^32 - 1 newlines equals, so the comparison is false.
IndexOfFirstCharInLine(s, line, oc) ==
    LET inLoop == LineScan(s, line, 1, 0)
        index  == IF s = <<>> THEN 0 ELSE Off(s, Len(s))
    IN  IF inLoop # -2 THEN [some |-> TRUE, val |-> inLoop]
        ELSE IF line = 0
             THEN (IF oc THEN [some |-> FALSE, val |-> Panic]
                   ELSE [some |-> FALSE, val |-> 0])
        ELSE IF CountNL(s) = line - 1 THEN [some |-> TRUE, val |-> index + 1]
        ELSE [some |-> FALSE, val |-> 0]

\* get_byte_index_from_position(s, Position{line, character}); Panic when the
\* evaluation panics.  s.len() - 1 on the empty text either panics (overflow
\* checks) or wraps to usize::MAX, for which nth finds no scalar and the
\* unwrap panics: Panic in both builds.
GetByteIndexFromPosition(s, line, character, oc) ==
    LET r == IndexOfFirstCharInLine(s, line, oc)
        line_start == IF r.some THEN r.val ELSE ByteLen(s)
        char_index == line_start + character
    IN  IF r.val = Panic THEN Panic
        ELSE IF char_index >= ByteLen(s)
             THEN (IF ByteLen(s) = 0 THEN Panic
                   ELSE NthCharOffset(s, ByteLen(s) - 1))
             ELSE NthCharOffset(s, char_index)

\* The value of the port flag when it is not given (main.rs).
DefaultPort == 57391

\* No request.
NoRequest == [method |-> "", path |-> "", ip |-> "", route |-> ""]

\* No command.
NoCommand == [command |-> "", arguments |-> <<>>]

\* No execute_command request has been answered.
NoResult == [command |-> "", arguments |-> <<>>, launch |-> FALSE, result |-> "none"]

\* ------------------------------------------------------------------------
\* Bounds of the model
\* ------------------------------------------------------------------------

\* Longest registry the model lets register build.
MaxReg == 2

\* Most events the model lets the coordinator publish.
MaxEvents == 3

\* Register requests handled at the same time.
MaxReq == 1

\* ------------------------------------------------------------------------
\* The coordinator (dashboard.rs)
\* ------------------------------------------------------------------------

\* The names instances register under.
Names == {"demo", "other"}

\* The ports instances report.
Ports == {4001, 4002}

\* The host of the default server string "http://127.0.0.1".
LocalHost == "127.0.0.1"

\* The body of a register request without a server field.
NoServer == "none"

\* A server string that Url::parse rejects.
BadServer == "::"

\* Url::parse(server.unwrap_or("http://127.0.0.1")) followed by set_port.
MkUrl(server, port) == [host |-> LocalHost, port |-> port]

\* The urls of the model.
Urls == {MkUrl(NoServer, p) : p \in Ports}

\* Url::to_string: the serialization of an http url ends its authority with
\* the path "/", and leaves out the scheme's default port.
UrlToString(u) ==
    IF u.port = 80 THEN <<"http://", u.host, "/">>
    ELSE <<"http://", u.host, ":", u.port, "/">>

\* format!("http://127.0.0.1:{}", port)
FormatLocal(port) == <<"http://", LocalHost, ":", port>>

\* The port a url string names.
PortOfString(str) == IF Len(str) >= 4 /\ str[3] = ":" THEN str[4] ELSE 80

\* An entry of ServerRegistry.servers.
Entry(name, url) == [name |-> name, url |-> url]

\* The (name, port) pairs of the register requests of the model: two
\* instances with one name, two names on one port.
Candidates == {<<"demo", 4001>>, <<"demo", 4002>>, <<"other", 4002>>}

Entries == {Entry(c[1], MkUrl(NoServer, c[2])) : c \in Candidates}

\* The Sent value published for an entry.
SentOf(added, e) == [added |-> added, name |-> e.name, url |-> UrlToString(e.url)]

\* How a target answers POST /ping: with a success status, with an error
\* status, or not at all.
Statuses == {"ok", "err", "down"}

\* check_server: client.post(url).send().await.is_ok(), true whenever a
\* response arrives, whatever its status.
CheckServer(status) == status # "down"

RECURSIVE RetainByName(_, _)
\* Retain with the entries compared by name only.
RetainByName(servers, items) ==
    IF servers = <<>> THEN <<>>
    ELSE LET rest == RetainByName(Tail(servers), items)
         IN  IF \E i \in 1..Len(items) : items[i].name = Head(servers).name
             THEN rest ELSE <<Head(servers)>> \o rest

RECURSIVE Retain(_, _)
\* reg.servers.retain(|v| !items.contains(&v)): keeps, in order, the entries
\* that are equal to no element of items.
Retain(servers, items) ==
    IF servers = <<>> THEN <<>>
    ELSE LET rest == Retain(Tail(servers), items)
         IN  IF \E i \in 1..Len(items) : items[i] = Head(servers)
             THEN rest ELSE <<Head(servers)>> \o rest

RECURSIVE RemovedEvents(_)
\* The for loop over items: one Sent with added = false per element of items.
RemovedEvents(items) ==
    IF items = <<>> THEN <<>>
    ELSE <<SentOf(FALSE, Head(items))>> \o RemovedEvents(Tail(items))

\* RegistryPush without the push.
RegistryPushNothing(servers, e) == servers

\* reg.servers.push((name, url))
RegistryPush(servers, e) == Append(servers, e)

\* The response of the ports handler: every entry as (name, url string).
PortsResponse(servers) ==
    [i \in 1..Len(servers) |-> <<servers[i].name, UrlToString(servers[i].url)>>]

\* Number of positions of seq that hold x.
Count(seq, x) == Cardinality({i \in 1..Len(seq) : seq[i] = x})

\* --- the environment: the registered servers ---

\* The instance the timed scenario follows.
DemoEntry == Entry("demo", MkUrl(NoServer, 4001))

\* No registered instance has stopped answering.
NoWatch == [age |-> -1, subs |-> {}]

\* The subscribers whose stream is open on both sides.
OpenSubs == {x \in DOMAIN subs : subs[x].pc = "open" /\ ~subs[x].closed}

\* The server at url u starts to answer differently.  watch records the
\* moment at which the registered DemoEntry stops answering, with the
\* subscribers connected at that moment.
SetTarget(u, st) ==
    /\ target[u] # st
    /\ target' = [target EXCEPT ![u] = st]
    /\ watch' = IF u # DemoEntry.url THEN watch
                ELSE IF st = "down" /\ Count(registry, DemoEntry) > 0
                     THEN [age |-> 0, subs |-> OpenSubs]
                     ELSE NoWatch
    /\ UNCHANGED <<registry, sent, monPc, monSnap, monIdx, monItems, monOk,
                   reqs, subs, nextTick>>
    /\ UNCHANGED <<portVars, lspVars, posVars, lkVars, linVars, httpVars, srvVars>>

\* --- the register handler ---

\* A slot that handles no request; resp is the response to the last request
\* it handled.
IdleReq == [pc |-> "idle", name |-> "", url |-> MkUrl(NoServer, 0), resp |-> "none"]

\* register up to the end of check_server: the url is built and probed.  A
\* server string that does not parse makes the unwrap panic, which the
\* framework answers with status 500.  A failed probe skips the if body and
\* the handler returns "".
RegisterStart(r, name, server, port) ==
    /\ reqs[r].pc = "idle"
    /\ IF server = BadServer
       THEN reqs' = [reqs EXCEPT ![r] = [IdleReq EXCEPT !.resp = "500"]]
       ELSE LET url == MkUrl(server, port)
            IN  reqs' = [reqs EXCEPT ![r] =
                            IF CheckServer(target[url])
                            THEN [pc |-> "commit", name |-> name, url |-> url,
                                  resp |-> "none"]
                            ELSE [IdleReq EXCEPT !.resp = "empty"]]
    /\ UNCHANGED <<registry, sent, target, monPc, monSnap, monIdx, monItems,
                   monOk, subs, nextTick, watch>>

\* RegisterStart as a step of the whole system.
RegisterProbe(r, name, server, port) ==
    /\ RegisterStart(r, name, server, port)
    /\ UNCHANGED <<portVars, lspVars, posVars, lkVars, linVars, httpVars, srvVars>>

\* register after a successful probe: under the write lock the entry is
\* pushed and the Sent with added = true is published; then "" is returned.
RegisterCommit(r) ==
    /\ reqs[r].pc = "commit"
    /\ LET e == Entry(reqs[r].name, reqs[r].url)
       IN  /\ registry' = RegistryPush(registry, e)
           /\ sent' = Append(sent, SentOf(TRUE, e))
    /\ reqs' = [reqs EXCEPT ![r] = [IdleReq EXCEPT !.resp = "empty"]]
    /\ UNCHANGED <<target, monPc, monSnap, monIdx, monItems, monOk, subs,
                   nextTick, watch>>
    /\ UNCHANGED <<portVars, lspVars, posVars, lkVars, linVars, httpVars, srvVars>>

\* --- the heartbeat task of start_server ---

\* The seconds between two ticks of the interval.
Period == 60

\* interval.tick() has completed: the next tick is one period later, and the
\* task clones the registry under the read lock.  (When the tick completes
\* is the matter of TickDue below.)
MonitorTick ==
    /\ monPc = "sleep"
    /\ nextTick' = Period
    /\ monPc' = "probe"
    /\ monSnap' = registry
    /\ monIdx' = 1
    /\ monItems' = <<>>
    /\ monOk' = <<>>
    /\ UNCHANGED <<registry, sent, target, reqs, subs, watch>>
    /\ UNCHANGED <<portVars, lspVars, posVars, lkVars, linVars, httpVars, srvVars>>

\* One iteration of the for loop over servers: the entry is probed and
\* pushed to items when the probe fails.
MonitorProbe ==
    /\ monPc = "probe"
    /\ monIdx <= Len(monSnap)
    /\ LET e  == monSnap[monIdx]
           ok == CheckServer(target[e.url])
       IN  /\ monItems' = IF ok THEN monItems ELSE Append(monItems, e)
           /\ monOk' = Append(monOk, ok)
    /\ monIdx' = monIdx + 1
    /\ UNCHANGED <<registry, sent, target, monPc, monSnap, reqs, subs,
                   nextTick, watch>>
    /\ UNCHANGED <<portVars, lspVars, posVars, lkVars, linVars, httpVars, srvVars>>

\* After the for loop: under the write lock the registry is filtered and one
\* Sent with added = false is published for every element of items; the
\* lock is released at the end of the loop body.
MonitorReconcile ==
    /\ monPc = "probe"
    /\ monIdx > Len(monSnap)
    /\ registry' = Retain(registry, monItems)
    /\ sent' = sent \o RemovedEvents(monItems)
    /\ monPc' = "sleep"
    /\ UNCHANGED <<target, monSnap, monIdx, monItems, monOk, reqs, subs,
                   nextTick, watch>>
    /\ UNCHANGED <<portVars, lspVars, posVars, lkVars, linVars, httpVars, srvVars>>

\* --- the event stream: the broadcast channel and web_socket ---

\* channel(10): the number of values the channel retains for a receiver.
Capacity == 10

\* Subscribers of the model.
MaxSubs == 1

NoSub == [pc |-> "none", next |-> 0, recvOff |-> FALSE, streamOff |-> FALSE,
          closed |-> FALSE, got |-> <<>>]

\* The receiver of subscriber x has values to receive.
Pending(x) == subs[x].next < Len(sent)

\* The receiver of subscriber x has been overtaken: the value at its position
\* is no longer retained.
Lagging(x) == subs[x].next < Len(sent) - Capacity

\* GET /ws: receiver.resubscribe() starts at the current tail of the channel.
WsAccept(x) ==
    /\ subs[x].pc = "none"
    /\ subs' = [subs EXCEPT ![x] = [NoSub EXCEPT !.pc = "open", !.next = Len(sent)]]
    /\ UNCHANGED <<registry, sent, target, monPc, monSnap, monIdx, monItems,
                   monOk, reqs, nextTick, watch>>

\* WsAccept as a step of the whole system.
WsConnect(x) ==
    /\ WsAccept(x)
    /\ UNCHANGED <<portVars, lspVars, posVars, lkVars, linVars, httpVars, srvVars>>

\* The branch Ok(url) = receiver.recv() with a retained value: the value is
\* sent to the client as a text frame.  A failed send (the client has closed)
\* breaks the loop; otherwise the loop starts its next select!.
WsRecvOk(x) ==
    /\ subs[x].pc = "open"
    /\ ~subs[x].recvOff
    /\ Pending(x) /\ ~Lagging(x)
    /\ subs' = [subs EXCEPT ![x] =
                  IF subs[x].closed
                  THEN [@ EXCEPT !.pc = "exited", !.next = @ + 1]
                  ELSE [@ EXCEPT !.next = @ + 1, !.streamOff = FALSE,
                                 !.got = Append(@, subs[x].next + 1)]]
    /\ UNCHANGED <<registry, sent, target, monPc, monSnap, monIdx, monItems,
                   monOk, reqs, nextTick, watch>>
    /\ UNCHANGED <<portVars, lspVars, posVars, lkVars, linVars, httpVars, srvVars>>

\* receiver.recv() of an overtaken receiver completes with Err(Lagged) and
\* moves the receiver to the oldest retained value.  The pattern Ok(url)
\* does not match, so select! disables this branch and goes on waiting for
\* the other one; with both branches disabled it takes the else branch.
WsRecvLagged(x) ==
    /\ subs[x].pc = "open"
    /\ ~subs[x].recvOff
    /\ Lagging(x)
    /\ subs' = [subs EXCEPT ![x] =
                  [@ EXCEPT !.next = Len(sent) - Capacity, !.recvOff = TRUE,
                            !.pc = IF subs[x].streamOff THEN "exited" ELSE "open"]]
    /\ UNCHANGED <<registry, sent, target, monPc, monSnap, monIdx, monItems,
                   monOk, reqs, nextTick, watch>>
    /\ UNCHANGED <<portVars, lspVars, posVars, lkVars, linVars, httpVars, srvVars>>

\* The client sends a frame and the branch Some(_) = stream.next() takes it:
\* the frame is ignored and the loop starts its next select!, with both
\* branches enabled again.
WsInbound(x) ==
    /\ subs[x].pc = "open"
    /\ ~subs[x].closed
    /\ ~subs[x].streamOff
    /\ subs[x].recvOff
    /\ subs' = [subs EXCEPT ![x] = [@ EXCEPT !.recvOff = FALSE]]
    /\ UNCHANGED <<registry, sent, target, monPc, monSnap, monIdx, monItems,
                   monOk, reqs, nextTick, watch>>
    /\ UNCHANGED <<portVars, lspVars, posVars, lkVars, linVars, httpVars, srvVars>>

\* The client closes the stream.
ClientClose(x) ==
    /\ subs[x].pc = "open"
    /\ ~subs[x].closed
    /\ subs' = [subs EXCEPT ![x] = [@ EXCEPT !.closed = TRUE]]
    /\ UNCHANGED <<registry, sent, target, monPc, monSnap, monIdx, monItems,
                   monOk, reqs, nextTick, watch>>
    /\ UNCHANGED <<portVars, lspVars, posVars, lkVars, linVars, httpVars, srvVars>>

\* stream.next() of a closed stream completes with None: the pattern Some(_)
\* does not match and select! disables the branch; with both branches
\* disabled it takes the else branch and the loop ends.
WsStreamEnd(x) ==
    /\ subs[x].pc = "open"
    /\ subs[x].closed
    /\ ~subs[x].streamOff
    /\ subs' = [subs EXCEPT ![x] =
                  [@ EXCEPT !.streamOff = TRUE,
                            !.pc = IF subs[x].recvOff THEN "exited" ELSE "open"]]
    /\ UNCHANGED <<registry, sent, target, monPc, monSnap, monIdx, monItems,
                   monOk, reqs, nextTick, watch>>
    /\ UNCHANGED <<portVars, lspVars, posVars, lkVars, linVars, httpVars, srvVars>>

\* --- time ---

\* A step of the coordinator is due now: the tick of a sleeping heartbeat
\* task whose deadline has come, the reconciliation after the last probe, or
\* the delivery of a retained event to a subscriber.  A probe in flight is
\* not: its client is built by Client::new(), without a timeout, so nothing
\* bounds the time check_server takes.
Urgent ==
    \/ monPc = "sleep" /\ nextTick = 0
    \/ monPc = "probe" /\ monIdx > Len(monSnap)
    \/ \E x \in DOMAIN subs : subs[x].pc = "open" /\ ~subs[x].recvOff /\ Pending(x)

Min(a, b) == IF a < b THEN a ELSE b

\* d seconds pass.  A sleeping heartbeat task wakes at its deadline; the
\* interval keeps its deadline while a cycle is still running.
Advance(d) ==
    /\ d >= 1
    /\ ~Urgent
    /\ monPc = "sleep" => d <= nextTick
    /\ nextTick' = IF d <= nextTick THEN nextTick - d ELSE 0
    /\ watch' = IF watch.age < 0 THEN watch
                ELSE [watch EXCEPT !.age = Min(@ + d, Period + 1)]
    /\ UNCHANGED <<registry, sent, target, monPc, monSnap, monIdx, monItems,
                   monOk, reqs, subs>>
    /\ UNCHANGED <<portVars, lspVars, posVars, lkVars, linVars, httpVars, srvVars>>

\* interval.tick() completes when its deadline has come.
TickDue ==
    /\ nextTick = 0
    /\ MonitorTick

\* --- get_port, in a preview-server process ---

\* The coordinator ports get_port is called with.
Bases == {4000}

\* The last port the model lets get_port try.
MaxPort == 4003

\* can_open_port(port) can succeed only when no server listens on the port.
CanBind(port) ==
    \A u \in DOMAIN target : (u.host = LocalHost /\ u.port = port) => target[u] = "down"

\* The condition of the while loop up to the ||: some element of data has
\* the string format!("http://127.0.0.1:{}", port) as its second component.
Listed(data, port) == \E i \in 1..Len(data) : data[i][2] = FormatLocal(port)

\* get_port up to the while loop: the response of /ports is fetched and the
\* candidate is the port after the coordinator's.
GetPortFetch(base) ==
    /\ gpPc = "idle"
    /\ gpData' = PortsResponse(registry)
    /\ gpPort' = base + 1
    /\ gpBind' = FALSE
    /\ gpPc' = "loop"
    /\ UNCHANGED <<dashVars, lspVars, posVars, lkVars, linVars, httpVars, srvVars>>

\* One evaluation of the loop condition; ok is the outcome of the bind
\* attempt, made only when the candidate is not listed.
GetPortStep(ok) ==
    /\ gpPc = "loop"
    /\ ok => CanBind(gpPort)
    /\ IF Listed(gpData, gpPort) \/ ~ok
       THEN /\ gpPort < MaxPort
            /\ gpPort' = gpPort + 1
            /\ gpBind' = FALSE
            /\ gpPc' = "loop"
       ELSE /\ gpPort' = gpPort
            /\ gpBind' = TRUE
            /\ gpPc' = "done"
    /\ UNCHANGED gpData
    /\ UNCHANGED <<dashVars, lspVars, posVars, lkVars, linVars, httpVars, srvVars>>

\* The caller has taken the port; the next call may start.
GetPortReturn ==
    /\ gpPc = "done"
    /\ gpPc' = "idle"
    /\ gpData' = <<>>
    /\ gpPort' = 0
    /\ gpBind' = FALSE
    /\ UNCHANGED <<dashVars, lspVars, posVars, lkVars, linVars, httpVars, srvVars>>

\* ------------------------------------------------------------------------
\* The requests that reach the coordinator (dashboard.rs)
\* ------------------------------------------------------------------------

\* The methods, paths and origins of the requests of the model.  The origin
\* is what client_ip() gives: a loopback address, another address, or None.
Methods == {"GET", "POST", "OPTIONS"}

Paths == {"/", "/ping", "/register", "/ports", "/ws", "/favicon.ico"}

Ips == {"loopback", "remote", "unknown"}

Requests == [method : Methods, path : Paths, ip : Ips]

\* on_request without the change of the method.
OnRequestKeep(req) == req

\* LocalhostGuard::on_request: the method of a request whose client address
\* is unknown or not a loopback address becomes OPTIONS.
OnRequest(req) ==
    IF req.ip # "loopback" THEN [req EXCEPT !.method = "OPTIONS"] ELSE req

\* The route mounted for a method and a path: the handlers carry #[get] or
\* #[post], none is mounted for OPTIONS; "none" is answered with 404.
Route(method, path) ==
    IF method = "GET" /\ path = "/" THEN "index"
    ELSE IF method = "GET" /\ path = "/favicon.ico" THEN "favicon"
    ELSE IF method = "GET" /\ path = "/ws" THEN "web_socket"
    ELSE IF method = "POST" /\ path = "/ping" THEN "ping"
    ELSE IF method = "POST" /\ path = "/register" THEN "register"
    ELSE IF method = "POST" /\ path = "/ports" THEN "ports"
    ELSE "none"

\* A request arrives: the fairing runs, the request is routed, and the
\* handler it reaches starts.  index, ports, ping and favicon change nothing.
\* The body of a register request is that of the instance "demo".
Serve(req) ==
    LET q == OnRequest(req)
        h == Route(q.method, q.path)
    IN  /\ lastReq' = [method |-> req.method, path |-> req.path, ip |-> req.ip,
                       route |-> h]
        /\ IF h = "register"
           THEN \E r \in DOMAIN reqs :
                    RegisterStart(r, DemoEntry.name, NoServer, DemoEntry.url.port)
           ELSE IF h = "web_socket"
           THEN \E x \in DOMAIN subs : WsAccept(x)
           ELSE UNCHANGED dashVars
        /\ UNCHANGED <<portVars, lspVars, posVars, lkVars, linVars, srvVars>>

\* ------------------------------------------------------------------------
\* The lock of the registry, step by step (dashboard.rs)
\* ------------------------------------------------------------------------

\* The RwLock when nobody holds it.
Unlocked == [writer |-> "none", readers |-> 0]

\* registry.read().await returns without a check of the lock.
NoWriterUnchecked == TRUE

\* registry.read().await can return: no writer holds the lock.
NoWriter == lock.writer = "none"

\* registry.write().await can return: nobody holds the lock.
LockFree == lock.writer = "none" /\ lock.readers = 0

\* No ports request is being handled.
IdleRd == [pc |-> "idle", out |-> <<>>, seen |-> <<>>]

\* register, line 65: the write lock is taken after the successful probe.
RegLock(r) ==
    /\ reqs[r].pc = "commit"
    /\ LockFree
    /\ lock' = [lock EXCEPT !.writer = "register"]
    /\ reqs' = [reqs EXCEPT ![r].pc = "locked"]
    /\ UNCHANGED <<registry, sent, target, monPc, monSnap, monIdx, monItems,
                   monOk, subs, nextTick, watch>>
    /\ UNCHANGED <<abs, rd, monPos>>
    /\ UNCHANGED <<portVars, lspVars, posVars, lkVars, httpVars, srvVars>>

\* register, line 66: the push, under the write lock.  The replay applies
\* the add at this moment.
RegPush(r) ==
    /\ reqs[r].pc = "locked"
    /\ LET e == Entry(reqs[r].name, reqs[r].url)
       IN  /\ registry' = RegistryPush(registry, e)
           /\ abs' = RegistryPush(abs, e)
    /\ reqs' = [reqs EXCEPT ![r].pc = "pushed"]
    /\ UNCHANGED <<sent, target, monPc, monSnap, monIdx, monItems, monOk, subs,
                   nextTick, watch>>
    /\ UNCHANGED <<lock, rd, monPos>>
    /\ UNCHANGED <<portVars, lspVars, posVars, lkVars, httpVars, srvVars>>

\* register, lines 67-74: the event is published, the guard is dropped at
\* the end of the if body and "" is returned.
RegSend(r) ==
    /\ reqs[r].pc = "pushed"
    /\ sent' = Append(sent, SentOf(TRUE, Entry(reqs[r].name, reqs[r].url)))
    /\ lock' = [lock EXCEPT !.writer = "none"]
    /\ reqs' = [reqs EXCEPT ![r] = [IdleReq EXCEPT !.resp = "empty"]]
    /\ UNCHANGED <<registry, target, monPc, monSnap, monIdx, monItems, monOk,
                   subs, nextTick, watch>>
    /\ UNCHANGED <<abs, rd, monPos>>
    /\ UNCHANGED <<portVars, lspVars, posVars, lkVars, httpVars, srvVars>>

\* Heartbeat task, line 155: the clone is made under the read lock, which is
\* released at the end of the statement.
MonSnapshot ==
    /\ NoWriter
    /\ MonitorTick

\* Heartbeat task, line 162: the write lock is taken after the last probe.
MonLock ==
    /\ monPc = "probe"
    /\ monIdx > Len(monSnap)
    /\ LockFree
    /\ lock' = [lock EXCEPT !.writer = "heartbeat"]
    /\ monPc' = "retain"
    /\ monPos' = 1
    /\ UNCHANGED <<registry, sent, target, monSnap, monIdx, monItems, monOk,
                   reqs, subs, nextTick, watch>>
    /\ UNCHANGED <<abs, rd>>
    /\ UNCHANGED <<portVars, lspVars, posVars, lkVars, httpVars, srvVars>>

\* seq without its k-th element.
RemoveAt(seq, k) == SubSeq(seq, 1, k - 1) \o SubSeq(seq, k + 1, Len(seq))

\* Heartbeat task, line 163: retain visits the entries in order and removes
\* the one it visits when it is an element of items.  The replay applies the
\* whole removal when retain has visited every entry.
MonRetainStep ==
    /\ monPc = "retain"
    /\ IF monPos > Len(registry)
       THEN /\ monPc' = "send"
            /\ abs' = Retain(abs, monItems)
            /\ UNCHANGED <<registry, monPos>>
       ELSE /\ IF \E i \in 1..Len(monItems) : monItems[i] = registry[monPos]
               THEN registry' = RemoveAt(registry, monPos) /\ monPos' = monPos
               ELSE registry' = registry /\ monPos' = monPos + 1
            /\ UNCHANGED <<monPc, abs>>
    /\ UNCHANGED <<sent, target, monSnap, monIdx, monItems, monOk, reqs, subs,
                   nextTick, watch>>
    /\ UNCHANGED <<lock, rd>>
    /\ UNCHANGED <<portVars, lspVars, posVars, lkVars, httpVars, srvVars>>

\* Heartbeat task, lines 164-171: the for loop consumes items and publishes
\* the removal events; the guard and the locals of the loop body are dropped
\* at its end.
MonSend ==
    /\ monPc = "send"
    /\ sent' = sent \o RemovedEvents(monItems)
    /\ lock' = [lock EXCEPT !.writer = "none"]
    /\ monPc' = "sleep"
    /\ monSnap' = <<>> /\ monIdx' = 1 /\ monItems' = <<>> /\ monOk' = <<>>
    /\ monPos' = 1
    /\ UNCHANGED <<registry, target, reqs, subs, nextTick, watch>>
    /\ UNCHANGED <<abs, rd>>
    /\ UNCHANGED <<portVars, lspVars, posVars, lkVars, httpVars, srvVars>>

\* ports, line 79: the read lock is taken.
RdLock ==
    /\ rd.pc = "idle"
    /\ NoWriter
    /\ lock' = [lock EXCEPT !.readers = @ + 1]
    /\ rd' = [IdleRd EXCEPT !.pc = "locked"]
    /\ UNCHANGED <<dashVars, abs, monPos>>
    /\ UNCHANGED <<portVars, lspVars, posVars, lkVars, httpVars, srvVars>>

\* ports, lines 80-86: the response is built from the registry and the guard
\* is dropped.  seen records what the replay gives at this moment.
RdRead ==
    /\ rd.pc = "locked"
    /\ rd' = [pc |-> "done", out |-> PortsResponse(registry),
              seen |-> PortsResponse(abs)]
    /\ lock' = [lock EXCEPT !.readers = @ - 1]
    /\ UNCHANGED <<dashVars, abs, monPos>>
    /\ UNCHANGED <<portVars, lspVars, posVars, lkVars, httpVars, srvVars>>

\* The response has been sent; the next ports request may come.
RdReturn ==
    /\ rd.pc = "done"
    /\ rd' = IdleRd
    /\ UNCHANGED <<dashVars, lock, abs, monPos>>
    /\ UNCHANGED <<portVars, lspVars, posVars, lkVars, httpVars, srvVars>>

\* ------------------------------------------------------------------------
\* The language server (lsp.rs)
\* ------------------------------------------------------------------------

\* Longest cached text, in scalars.
MaxDocLen == 8

\* Most reload signals the model lets one workspace receive.
MaxSignals == 2

\* Most content changes in one did_change notification.
MaxChanges == 1

\* Paths are sequences of components; the uri of a path is "file://"
\* followed by the path.
Roots == {<<"root">>, <<"other">>}

Uris == {<<"root", "a.txt">>, <<"other", "b.txt">>, <<"tmp", "c.txt">>}

\* Path::starts_with: every component of root is the component of path at
\* the same place.
StartsWith(path, root) ==
    /\ Len(root) <= Len(path)
    /\ SubSeq(path, 1, Len(root)) = root

\* get_workspace_for_file without the test of the path: any root.
GetWorkspaceAny(uri) == folders

\* get_workspace_for_file: the roots the iteration over the table can return
\* for the uri (it returns the first match); empty when it returns None.
GetWorkspaceForFile(uri) == {r \in folders : StartsWith(uri, r)}

\* update_file, rel: the path of the uri with the root string stripped from
\* its front when it starts with it; what remains starts with "/".
RelPath(uri, root) ==
    IF StartsWith(uri, root)
    THEN <<"/">> \o SubSeq(uri, Len(root) + 1, Len(uri))
    ELSE uri

\* The texts the editor opens documents with.
OpenTexts == {<<"h", "e", "l", "l", "o">>, <<>>, <<"a", "b", NL, "c", "d">>, <<E2, "a">>}

\* The texts of the edits.
EditTexts == {<<"b", "y", "e">>, <<>>}

\* The range of a full-document change.
NoRange == [sl |-> -1, sc |-> -1, el |-> -1, ec |-> -1]

Range(a, b, c, d) == [sl |-> a, sc |-> b, el |-> c, ec |-> d]

\* The ranges of the edits: the whole first line of "hello", an insertion at
\* the start, the first scalar of the second line, and the end of the first
\* line with its newline.
Ranges == {Range(0, 0, 0, 5), Range(0, 0, 0, 0), Range(1, 0, 1, 1), Range(0, 1, 1, 0)}

Changes == [range : Ranges \cup {NoRange}, text : EditTexts]

\* String::replace_range(start..end, text) on offsets that char_indices
\* yielded: the scalars before byte start, the text, the scalars from byte
\* end on.  It panics when start is after end.
ReplaceRange(s, start, end, text) ==
    LET before == {i \in 1..Len(s) : Off(s, i) < start}
        upto   == {i \in 1..Len(s) : Off(s, i) < end}
    IN  IF start > end THEN [ok |-> FALSE, text |-> s]
        ELSE [ok |-> TRUE,
              text |-> SubSeq(s, 1, Cardinality(before)) \o text
                       \o SubSeq(s, Cardinality(upto) + 1, Len(s))]

\* The body of the for loop of did_change for one change.
ApplyChange(s, ch, oc) ==
    IF ch.range = NoRange THEN [ok |-> TRUE, text |-> ch.text]
    ELSE LET start == GetByteIndexFromPosition(s, ch.range.sl, ch.range.sc, oc)
             end   == GetByteIndexFromPosition(s, ch.range.el, ch.range.ec, oc)
         IN  IF start = Panic \/ end = Panic THEN [ok |-> FALSE, text |-> s]
             ELSE ReplaceRange(s, start, end, ch.text)

RECURSIVE ApplyChanges(_, _, _)
\* The for loop of did_change: the changes are applied in order, up to the
\* first one that panics.
ApplyChanges(s, chs, oc) ==
    IF chs = <<>> THEN [ok |-> TRUE, text |-> s]
    ELSE LET r == ApplyChange(s, Head(chs), oc)
         IN  IF r.ok THEN ApplyChanges(r.text, Tail(chs), oc) ELSE r

\* call_custom_function: outside eager mode only a save goes on; the path is
\* sent on the signal of the workspace found in the table.
CallCustomFunction(root, path, saved) ==
    IF ~eager /\ ~saved THEN sigs
    ELSE IF root \in folders THEN [sigs EXCEPT ![root] = Append(@, path)]
    ELSE sigs

\* update_file
UpdateFile(uri, root, saved) == CallCustomFunction(root, RelPath(uri, root), saved)

\* files.insert(uri, content)
Insert(f, uri, content) == (uri :> content) @@ f

\* files.remove(&uri)
Remove(f, uri) == [u \in DOMAIN f \ {uri} |-> f[u]]

\* initialize: one LspFileService with an empty cache per workspace folder
\* of the request.
Initialize(fs) ==
    /\ phase = "new"
    /\ phase' = "ready"
    /\ folders' = fs
    /\ lastOp' = [kind |-> "initialize", uri |-> <<>>, chs |-> <<>>]
    /\ UNCHANGED <<eager, checks, files, sigs, crashed>>
    /\ UNCHANGED <<dashVars, portVars, posVars, lkVars, linVars, httpVars, srvVars>>

\* did_open: for the workspace of the uri the text is cached in eager mode
\* and update_file is called with saved = false.
DidOpen(uri, content) ==
    /\ phase = "ready" /\ ~crashed
    /\ lastOp' = [kind |-> "did_open", uri |-> uri, chs |-> <<>>]
    /\ IF GetWorkspaceForFile(uri) = {}
       THEN UNCHANGED <<files, sigs>>
       ELSE \E root \in GetWorkspaceForFile(uri) :
              /\ files' = IF eager
                          THEN [files EXCEPT ![root] = Insert(@, uri, content)]
                          ELSE files
              /\ sigs' = UpdateFile(uri, root, FALSE)
    /\ UNCHANGED <<eager, checks, folders, crashed, phase>>
    /\ UNCHANGED <<dashVars, portVars, posVars, lkVars, linVars, httpVars, srvVars>>

\* did_save: update_file is called with saved = true.
DidSave(uri) ==
    /\ phase = "ready" /\ ~crashed
    /\ lastOp' = [kind |-> "did_save", uri |-> uri, chs |-> <<>>]
    /\ IF GetWorkspaceForFile(uri) = {}
       THEN UNCHANGED sigs
       ELSE \E root \in GetWorkspaceForFile(uri) :
              sigs' = UpdateFile(uri, root, TRUE)
    /\ UNCHANGED <<eager, checks, folders, files, crashed, phase>>
    /\ UNCHANGED <<dashVars, portVars, posVars, lkVars, linVars, httpVars, srvVars>>

\* did_change: in eager mode the changes are applied to the cached text, when
\* there is one; then update_file is called with saved = false.  A panic in
\* the for loop ends the handler before update_file.
DidChange(uri, chs) ==
    /\ phase = "ready" /\ ~crashed
    /\ lastOp' = [kind |-> "did_change", uri |-> uri,
                  chs |-> IF eager /\ \E r \in GetWorkspaceForFile(uri) :
                                         uri \in DOMAIN files[r]
                          THEN chs ELSE <<>>]
    /\ IF GetWorkspaceForFile(uri) = {}
       THEN UNCHANGED <<files, sigs, crashed>>
       ELSE \E root \in GetWorkspaceForFile(uri) :
              IF uri \in DOMAIN files[root] /\ eager
              THEN LET r == ApplyChanges(files[root][uri], chs, checks)
                   IN  /\ files' = [files EXCEPT ![root][uri] = r.text]
                       /\ crashed' = ~r.ok
                       /\ sigs' = IF r.ok THEN UpdateFile(uri, root, FALSE) ELSE sigs
              ELSE /\ sigs' = UpdateFile(uri, root, FALSE)
                   /\ UNCHANGED <<files, crashed>>
    /\ UNCHANGED <<eager, checks, folders, phase>>
    /\ UNCHANGED <<dashVars, portVars, posVars, lkVars, linVars, httpVars, srvVars>>

\* did_close: the uri is removed from the cache of its workspace.
DidClose(uri) ==
    /\ phase = "ready" /\ ~crashed
    /\ lastOp' = [kind |-> "did_close", uri |-> uri, chs |-> <<>>]
    /\ IF GetWorkspaceForFile(uri) = {}
       THEN UNCHANGED files
       ELSE \E root \in GetWorkspaceForFile(uri) :
              files' = [files EXCEPT ![root] = Remove(@, uri)]
    /\ UNCHANGED <<eager, checks, folders, sigs, crashed, phase>>
    /\ UNCHANGED <<dashVars, portVars, posVars, lkVars, linVars, httpVars, srvVars>>

\* ------------------------------------------------------------------------
\* The serve tasks and the commands (lsp.rs)
\* ------------------------------------------------------------------------

\* Most initialized notifications the model lets the editor send.
MaxInit == 2

\* Most increments of one workspace's port the model follows.
MaxBumps == 2

\* Most browser launches the model follows.
MaxOpened == 1

\* The greatest u16.
MaxU16 == 65535

\* The values of the port flag: the default and the greatest port.
PortBases == {DefaultPort, MaxU16}

\* A task as tokio::spawn creates it: p is the port of its last serve call
\* and why tells how that call ended.
NewTask(root) == [root |-> root, pc |-> "start", p |-> -1, why |-> "none"]

\* The orders in which an iteration over the table can visit the roots.
Orders(S) ==
    {f \in [1..Cardinality(S) -> S] : \A i, j \in 1..Cardinality(S) : f[i] = f[j] => i = j}

\* The ports on which a bind fails: those other processes listen on and
\* those the serve calls of the tasks hold.  (Port 0 asks the system for a
\* free port and is never in use.)
PortsHeld ==
    busy \cup {tasks[t].p : t \in {u \in DOMAIN tasks : tasks[u].pc = "serving"}}

InUse(q) == q # 0 /\ q \in PortsHeld

\* initialized: one task per workspace folder is spawned and the handles of
\* these tasks replace the value of Backend.threads.  (After shutdown the
\* protocol layer answers no further message.)
Initialized ==
    /\ phase = "ready" /\ ~down
    /\ \E order \in Orders(folders) :
         /\ tasks' = tasks \o [i \in 1..Len(order) |-> NewTask(order[i])]
         /\ threads' = {Len(tasks) + i : i \in 1..Len(order)}
    /\ UNCHANGED <<svcPort, down, busy, opened, cmdRes, offer>>
    /\ UNCHANGED <<dashVars, portVars, lspVars, posVars, lkVars, linVars, httpVars>>

\* The task loop, lines 312-320: the port is read and serve is called with
\* it; the call returns at once when the port is in use and otherwise
\* serves.
ServeAttempt(t) ==
    /\ tasks[t].pc = "start"
    /\ LET q == svcPort[tasks[t].root]
       IN  tasks' = [tasks EXCEPT ![t] =
                       [@ EXCEPT !.p = q,
                                 !.pc = IF InUse(q) THEN "returned" ELSE "serving",
                                 !.why = IF InUse(q) THEN "in_use" ELSE "none"]]
    /\ UNCHANGED <<svcPort, threads, down, busy, opened, cmdRes, offer>>
    /\ UNCHANGED <<dashVars, portVars, lspVars, posVars, lkVars, linVars, httpVars>>

\* A serve call that was serving returns: the result of the call is dropped
\* (let _ =), so the loop goes on as after any other return.
ServeEnd(t) ==
    /\ tasks[t].pc = "serving"
    /\ tasks' = [tasks EXCEPT ![t] = [@ EXCEPT !.pc = "returned", !.why = "other"]]
    /\ UNCHANGED <<svcPort, threads, down, busy, opened, cmdRes, offer>>
    /\ UNCHANGED <<dashVars, portVars, lspVars, posVars, lkVars, linVars, httpVars>>

\* The task loop, line 321: *f.port.lock().await += 1 on a u16.  At the
\* greatest port the addition panics with overflow checks and wraps to 0
\* without them.
PortIncrement(t) ==
    /\ tasks[t].pc = "returned"
    /\ LET r == tasks[t].root
       IN  IF svcPort[r] = MaxU16
           THEN IF checks
                THEN /\ tasks' = [tasks EXCEPT ![t] = [@ EXCEPT !.pc = "panicked"]]
                     /\ UNCHANGED svcPort
                ELSE /\ svcPort' = [svcPort EXCEPT ![r] = 0]
                     /\ tasks' = [tasks EXCEPT ![t] = [@ EXCEPT !.pc = "start"]]
           ELSE /\ svcPort' = [svcPort EXCEPT ![r] = @ + 1]
                /\ tasks' = [tasks EXCEPT ![t] = [@ EXCEPT !.pc = "start"]]
    /\ UNCHANGED <<threads, down, busy, opened, cmdRes, offer>>
    /\ UNCHANGED <<dashVars, portVars, lspVars, posVars, lkVars, linVars, httpVars>>

\* shutdown: every handle in Backend.threads is aborted.
Shutdown ==
    /\ phase = "ready" /\ ~down
    /\ tasks' = [t \in DOMAIN tasks |->
                   IF t \in threads /\ tasks[t].pc # "panicked"
                   THEN [tasks[t] EXCEPT !.pc = "aborted"]
                   ELSE tasks[t]]
    /\ down' = TRUE
    /\ UNCHANGED <<svcPort, threads, busy, opened, cmdRes, offer>>
    /\ UNCHANGED <<dashVars, portVars, lspVars, posVars, lkVars, linVars, httpVars>>

\* The command names of the model.
Commands == {"openProjectWeb", "openProjectsWeb", "other"}

\* The argument lists of the model: none, a root, a path that is no root.
ArgLists == {<<>>} \cup {<<r>> : r \in Roots \cup {<<"nowhere">>}}

\* code_action: for the workspace of the uri one action is returned, whose
\* command is "openProjectWeb" with the root as its argument.
CodeAction(uri) ==
    /\ phase = "ready" /\ ~down
    /\ IF GetWorkspaceForFile(uri) = {}
       THEN offer' = NoCommand
       ELSE \E root \in GetWorkspaceForFile(uri) :
              offer' = [command |-> "openProjectWeb", arguments |-> <<root>>]
    /\ UNCHANGED <<svcPort, tasks, threads, down, busy, opened, cmdRes>>
    /\ UNCHANGED <<dashVars, portVars, lspVars, posVars, lkVars, linVars, httpVars>>

\* The result of execute_command and the url it opens (<<>> when it opens
\* none); launch is the outcome of webbrowser::open.  The second test of the
\* name "openProjectsWeb" comes after a first test of the same name.
ExecuteResult(command, arguments, launch) ==
    IF command = "openProjectsWeb"
    THEN IF arguments = <<>>
         THEN [result |-> "invalid_params: URL argument missing", url |-> <<>>]
         ELSE IF arguments[1] \in folders
         THEN [result |-> IF launch THEN "ok"
                          ELSE "invalid_params: failed to open browser",
               url |-> FormatLocal(svcPort[arguments[1]])]
         ELSE [result |-> "invalid_params: URL argument invalid", url |-> <<>>]
    ELSE IF command = "openProjectsWeb"
    THEN [result |-> IF launch THEN "ok"
                     ELSE "invalid_params: failed to open browser",
          url |-> FormatLocal(DefaultPort)]
    ELSE [result |-> "method_not_found", url |-> <<>>]

\* execute_command
ExecuteCommand(command, arguments, launch) ==
    /\ phase = "ready" /\ ~down
    /\ LET res == ExecuteResult(command, arguments, launch)
       IN  /\ cmdRes' = [command |-> command, arguments |-> arguments,
                         launch |-> launch, result |-> res.result]
           /\ opened' = IF res.url # <<>> /\ launch THEN Append(opened, res.url)
                        ELSE opened
    /\ UNCHANGED <<svcPort, tasks, threads, down, busy, offer>>
    /\ UNCHANGED <<dashVars, portVars, lspVars, posVars, lkVars, linVars, httpVars>>

\* get_byte_index_from_position applied to the drawn text and position.
ComputeOffset ==
    /\ pOut = -2
    /\ pOut' = GetByteIndexFromPosition(pText, pLine, pChar, checks)
    /\ UNCHANGED <<pText, pLine, pChar>>
    /\ UNCHANGED <<dashVars, portVars, lspVars, linVars, httpVars, srvVars, lkVars>>

\* ------------------------------------------------------------------------
\* The handlers, the serve tasks and get_file, lock by lock (lsp.rs)
\* ------------------------------------------------------------------------

\* A file name with a space, and that name as Url::to_string writes it.
Spaced == "b c.txt"

Escaped == "b%20c.txt"

\* Url::to_string writes a path component percent-encoded.
PercentEncode(c) == IF c = Spaced THEN Escaped ELSE c

\* params.text_document.uri.to_string() for the document at a path (the
\* "file://" in front is left out, as in every uri of the model).
UriOfPath(path) == [i \in 1..Len(path) |-> PercentEncode(path[i])]

\* LspFile::new, line 60: format!("file://{}", path.to_str()) writes the
\* path as it is.
FileKey(path) == path

\* The documents of the model, by their paths in the file system.
DocPaths == {<<"root", "a.txt">>, <<"root", Spaced>>, <<"tmp", "c.txt">>}

\* What TokioFile::open(path) and read_to_end give: the text on disk.
OnDisk(path) == <<"o", "l", "d">>

\* The mutexes: Backend.workspace_folders and, per workspace, the files and
\* the port of its LspFileService.  (Backend.threads is locked in single
\* statements by initialized and shutdown only.)
LockW == [k |-> "workspace_folders", r |-> <<>>]

LockFiles(root) == [k |-> "files", r |-> root]

LockPort(root) == [k |-> "port", r |-> root]

Locks == {LockW} \cup {LockFiles(r) : r \in Roots} \cup {LockPort(r) : r \in Roots}

\* Who can hold a mutex.
NoHolder == [k |-> "free", i |-> 0]

Handler(h) == [k |-> "handler", i |-> h]

Task(t) == [k |-> "task", i |-> t]

\* The guards of a holder are dropped.
Released(who) == [l \in Locks |-> IF mtx[l] = who THEN NoHolder ELSE mtx[l]]

\* A slot with no call in it.
IdleHandler ==
    [kind |-> "none", pc |-> "idle", doc |-> <<>>, uri |-> <<>>, root |-> <<>>,
     text |-> <<>>, chs |-> <<>>, command |-> "", arguments |-> <<>>,
     left |-> {}, spawned |-> {}, wrote |-> FALSE]

\* A slot whose call has returned.
Finished == [IdleHandler EXCEPT !.pc = "done"]

\* No call of get_file.
IdleGf == [pc |-> "idle", path |-> <<>>, root |-> <<>>, out |-> <<>>,
           floor |-> 0, want |-> <<>>, got |-> 0]

\* The kinds of call that start with get_workspace_for_file.
DocKinds == {"did_open", "did_change", "did_close", "did_save", "code_action"}

\* The protocol layer hands a message to its handler; handlers of different
\* messages run concurrently.  doc is the path of the document of the uri.
Receive(h, kind, doc, text, chs, command, arguments) ==
    /\ phase = "ready" /\ ~crashed
    /\ hs[h].pc \in {"idle", "done"}
    /\ hs' = [hs EXCEPT ![h] =
                [IdleHandler EXCEPT !.kind = kind, !.pc = "start", !.doc = doc,
                                    !.uri = UriOfPath(doc), !.text = text,
                                    !.chs = chs, !.command = command,
                                    !.arguments = arguments]]
    /\ nOps' = nOps + 1
    /\ UNCHANGED <<mtx, gf, hist>>
    /\ UNCHANGED <<dashVars, portVars, lspVars, posVars, linVars, httpVars, srvVars>>

\* get_workspace_for_file, line 351: the table is locked.
GwfLock(h) ==
    /\ ~crashed
    /\ hs[h].pc = "start" /\ hs[h].kind \in DocKinds
    /\ mtx[LockW] = NoHolder
    /\ mtx' = [mtx EXCEPT ![LockW] = Handler(h)]
    /\ hs' = [hs EXCEPT ![h].pc = "gwf"]
    /\ UNCHANGED <<gf, hist, nOps>>
    /\ UNCHANGED <<dashVars, portVars, lspVars, posVars, linVars, httpVars, srvVars>>

\* get_workspace_for_file, lines 352-358: it returns the service of a
\* matching root, or None, and its guard is dropped.  On None every handler
\* returns (code_action with no action).
GwfReturn(h) ==
    /\ ~crashed
    /\ hs[h].pc = "gwf"
    /\ mtx' = Released(Handler(h))
    /\ IF GetWorkspaceForFile(hs[h].uri) = {}
       THEN /\ hs' = [hs EXCEPT ![h] = Finished]
            /\ offer' = IF hs[h].kind = "code_action" THEN NoCommand ELSE offer
       ELSE /\ \E root \in GetWorkspaceForFile(hs[h].uri) :
                 hs' = [hs EXCEPT ![h].root = root,
                                  ![h].pc = CASE hs[h].kind = "did_save" -> "update"
                                              [] hs[h].kind = "code_action" -> "port"
                                              [] OTHER -> "files"]
            /\ UNCHANGED offer
    /\ UNCHANGED <<gf, hist, nOps>>
    /\ UNCHANGED <<svcPort, tasks, threads, down, busy, opened, cmdRes>>
    /\ UNCHANGED <<dashVars, portVars, lspVars, posVars, linVars, httpVars>>

\* The cache after the handler's write, lines 113-115, 134-147 and 339.
CacheWrite(h) ==
    LET c == hs[h]
        f == files[c.root]
    IN  CASE c.kind = "did_open" ->
               [ok |-> TRUE, f |-> IF eager THEN Insert(f, c.uri, c.text) ELSE f]
          [] c.kind = "did_change" ->
               IF c.uri \in DOMAIN f /\ eager
               THEN LET r == ApplyChanges(f[c.uri], c.chs, checks)
                    IN  [ok |-> r.ok, f |-> [f EXCEPT ![c.uri] = r.text]]
               ELSE [ok |-> TRUE, f |-> f]
          [] OTHER -> [ok |-> TRUE, f |-> Remove(f, c.uri)]

\* did_open 112-115, did_change 133-147, did_close 338-340: the files of the
\* service are locked and the cache is written.  did_close then returns; a
\* panic in did_change unwinds, which drops the guard, and ends the process;
\* did_open and did_change go on to update_file with the guard held.
FilesLock(h) ==
    /\ ~crashed
    /\ hs[h].pc = "files"
    /\ mtx[LockFiles(hs[h].root)] = NoHolder
    /\ LET w == CacheWrite(h)
           stays == w.ok /\ hs[h].kind # "did_close"
       IN  /\ files' = [files EXCEPT ![hs[h].root] = w.f]
           /\ crashed' = ~w.ok
           /\ mtx' = IF stays
                     THEN [mtx EXCEPT ![LockFiles(hs[h].root)] = Handler(h)]
                     ELSE mtx
           /\ hs' = IF stays
                    THEN [hs EXCEPT ![h].pc = "update", ![h].wrote = files' # files]
                    ELSE IF w.ok THEN [hs EXCEPT ![h] = Finished]
                    ELSE [hs EXCEPT ![h].pc = "panicked"]
           /\ hist' = IF files' # files
                      THEN [hist EXCEPT ![hs[h].doc].ver = @ + 1]
                      ELSE hist
    /\ UNCHANGED <<gf, nOps>>
    /\ UNCHANGED <<eager, checks, folders, sigs, phase, lastOp>>
    /\ UNCHANGED <<dashVars, portVars, posVars, linVars, httpVars, srvVars>>

\* update_file and call_custom_function, lines 374-380: outside eager mode
\* only a save goes on, and the handler returns; otherwise the table is
\* locked, with the files still locked in did_open and did_change.
CcfLock(h) ==
    /\ ~crashed
    /\ hs[h].pc = "update"
    /\ IF ~eager /\ hs[h].kind # "did_save"
       THEN /\ mtx' = Released(Handler(h))
            /\ hs' = [hs EXCEPT ![h] = Finished]
       ELSE /\ mtx[LockW] = NoHolder
            /\ mtx' = [mtx EXCEPT ![LockW] = Handler(h)]
            /\ hs' = [hs EXCEPT ![h].pc = "signal"]
    /\ UNCHANGED <<gf, hist, nOps>>
    /\ UNCHANGED <<dashVars, portVars, lspVars, posVars, linVars, httpVars, srvVars>>

\* call_custom_function, lines 381-384: the path is sent on the signal of
\* the workspace; the guards are dropped as the functions return.  hist
\* records the signal of an open or a change that wrote the cache, with the
\* text the cache then holds for the uri.
CcfSend(h) ==
    /\ ~crashed
    /\ hs[h].pc = "signal"
    /\ sigs' = UpdateFile(hs[h].uri, hs[h].root, hs[h].kind = "did_save")
    /\ mtx' = Released(Handler(h))
    /\ hs' = [hs EXCEPT ![h] = Finished]
    /\ hist' = IF hs[h].wrote /\ sigs' # sigs
               THEN [hist EXCEPT ![hs[h].doc].sigVer = hist[hs[h].doc].ver,
                                 ![hs[h].doc].sigText = files[hs[h].root][hs[h].uri]]
               ELSE hist
    /\ UNCHANGED <<gf, nOps>>
    /\ UNCHANGED <<eager, checks, folders, files, crashed, phase, lastOp>>
    /\ UNCHANGED <<dashVars, portVars, posVars, linVars, httpVars, srvVars>>

\* code_action, lines 277-297: the port is read under its lock in one
\* statement and the action is returned.
CodeActionPort(h) ==
    /\ ~crashed
    /\ hs[h].pc = "port"
    /\ mtx[LockPort(hs[h].root)] = NoHolder
    /\ offer' = [command |-> "openProjectWeb", arguments |-> <<hs[h].root>>]
    /\ hs' = [hs EXCEPT ![h] = Finished]
    /\ UNCHANGED <<mtx, gf, hist, nOps>>
    /\ UNCHANGED <<svcPort, tasks, threads, down, busy, opened, cmdRes>>
    /\ UNCHANGED <<dashVars, portVars, lspVars, posVars, linVars, httpVars>>

\* The result of an execute_command call is recorded.
Answer(h, launch) ==
    LET res == ExecuteResult(hs[h].command, hs[h].arguments, launch)
    IN  /\ cmdRes' = [command |-> hs[h].command, arguments |-> hs[h].arguments,
                      launch |-> launch, result |-> res.result]
        /\ opened' = IF res.url # <<>> /\ launch THEN Append(opened, res.url)
                     ELSE opened

\* execute_command, lines 156-158: for "openProjectsWeb" with an argument the
\* table is locked; every other call returns its error.
ExecLock(h) ==
    /\ ~crashed
    /\ hs[h].pc = "start" /\ hs[h].kind = "execute_command"
    /\ IF hs[h].command = "openProjectsWeb" /\ hs[h].arguments # <<>>
       THEN /\ mtx[LockW] = NoHolder
            /\ mtx' = [mtx EXCEPT ![LockW] = Handler(h)]
            /\ hs' = [hs EXCEPT ![h].pc = "exec"]
            /\ UNCHANGED <<opened, cmdRes>>
       ELSE /\ Answer(h, FALSE)
            /\ hs' = [hs EXCEPT ![h] = Finished]
            /\ UNCHANGED mtx
    /\ UNCHANGED <<gf, hist, nOps>>
    /\ UNCHANGED <<svcPort, tasks, threads, down, busy, offer>>
    /\ UNCHANGED <<dashVars, portVars, lspVars, posVars, linVars, httpVars>>

\* execute_command, lines 158-176: with the guard of the table alive, the
\* port of the project is read under its lock and the url is opened; the
\* guard of the table is dropped at the end of the if let.
ExecPort(h, launch) ==
    /\ ~crashed
    /\ hs[h].pc = "exec"
    /\ hs[h].arguments[1] \in folders => mtx[LockPort(hs[h].arguments[1])] = NoHolder
    /\ Answer(h, launch)
    /\ mtx' = Released(Handler(h))
    /\ hs' = [hs EXCEPT ![h] = Finished]
    /\ UNCHANGED <<gf, hist, nOps>>
    /\ UNCHANGED <<svcPort, tasks, threads, down, busy, offer>>
    /\ UNCHANGED <<dashVars, portVars, lspVars, posVars, linVars, httpVars>>

\* initialized, line 304: the table is locked for the rest of the handler.
InitLock(h) ==
    /\ ~crashed
    /\ hs[h].pc = "start" /\ hs[h].kind = "initialized"
    /\ mtx[LockW] = NoHolder
    /\ mtx' = [mtx EXCEPT ![LockW] = Handler(h)]
    /\ hs' = [hs EXCEPT ![h].pc = "spawn", ![h].left = folders]
    /\ UNCHANGED <<gf, hist, nOps>>
    /\ UNCHANGED <<dashVars, portVars, lspVars, posVars, linVars, httpVars, srvVars>>

\* initialized, lines 306-330, one round of the for loop: the task of a
\* folder is spawned and the port of the folder is read under its lock for
\* the log message.
InitSpawn(h) ==
    /\ ~crashed
    /\ hs[h].pc = "spawn"
    /\ \E root \in hs[h].left :
         /\ mtx[LockPort(root)] = NoHolder
         /\ tasks' = Append(tasks, NewTask(root))
         /\ hs' = [hs EXCEPT ![h].left = @ \ {root},
                             ![h].spawned = @ \cup {Len(tasks) + 1}]
    /\ UNCHANGED <<mtx, gf, hist, nOps>>
    /\ UNCHANGED <<svcPort, threads, down, busy, opened, cmdRes, offer>>
    /\ UNCHANGED <<dashVars, portVars, lspVars, posVars, linVars, httpVars>>

\* initialized, line 331: the handles replace the value of Backend.threads
\* and the guard of the table is dropped.
InitThreads(h) ==
    /\ ~crashed
    /\ hs[h].pc = "spawn" /\ hs[h].left = {}
    /\ threads' = hs[h].spawned
    /\ mtx' = Released(Handler(h))
    /\ hs' = [hs EXCEPT ![h] = Finished]
    /\ UNCHANGED <<gf, hist, nOps>>
    /\ UNCHANGED <<svcPort, tasks, down, busy, opened, cmdRes, offer>>
    /\ UNCHANGED <<dashVars, portVars, lspVars, posVars, linVars, httpVars>>

\* The task loop, lines 312 and 321: f.port is locked.
TaskPortLock(t) ==
    /\ ~crashed
    /\ tasks[t].pc \in {"start", "returned"}
    /\ mtx[LockPort(tasks[t].root)] = NoHolder
    /\ mtx' = [mtx EXCEPT ![LockPort(tasks[t].root)] = Task(t)]
    /\ UNCHANGED <<hs, gf, hist, nOps>>
    /\ UNCHANGED <<dashVars, portVars, lspVars, posVars, linVars, httpVars, srvVars>>

\* The task loop, lines 312-320: the port is copied, the guard is dropped
\* and serve is called with the port.
TaskPortRead(t) ==
    /\ ~crashed
    /\ tasks[t].pc = "start"
    /\ mtx[LockPort(tasks[t].root)] = Task(t)
    /\ mtx' = Released(Task(t))
    /\ LET q == svcPort[tasks[t].root]
       IN  tasks' = [tasks EXCEPT ![t] =
                       [@ EXCEPT !.p = q,
                                 !.pc = IF InUse(q) THEN "returned" ELSE "serving",
                                 !.why = IF InUse(q) THEN "in_use" ELSE "none"]]
    /\ UNCHANGED <<hs, gf, hist, nOps>>
    /\ UNCHANGED <<svcPort, threads, down, busy, opened, cmdRes, offer>>
    /\ UNCHANGED <<dashVars, portVars, lspVars, posVars, linVars, httpVars>>

\* The task loop, line 321: the port is incremented and the guard is dropped.
TaskPortAdd(t) ==
    /\ ~crashed
    /\ tasks[t].pc = "returned"
    /\ mtx[LockPort(tasks[t].root)] = Task(t)
    /\ mtx' = Released(Task(t))
    /\ LET r == tasks[t].root
       IN  IF svcPort[r] = MaxU16
           THEN IF checks
                THEN /\ tasks' = [tasks EXCEPT ![t] = [@ EXCEPT !.pc = "panicked"]]
                     /\ UNCHANGED svcPort
                ELSE /\ svcPort' = [svcPort EXCEPT ![r] = 0]
                     /\ tasks' = [tasks EXCEPT ![t] = [@ EXCEPT !.pc = "start"]]
           ELSE /\ svcPort' = [svcPort EXCEPT ![r] = @ + 1]
                /\ tasks' = [tasks EXCEPT ![t] = [@ EXCEPT !.pc = "start"]]
    /\ UNCHANGED <<hs, gf, hist, nOps>>
    /\ UNCHANGED <<threads, down, busy, opened, cmdRes, offer>>
    /\ UNCHANGED <<dashVars, portVars, lspVars, posVars, linVars, httpVars>>

\* The preview server of a serving task calls get_file for a path under its
\* root.  floor and want record the last signal of an open or a change of
\* the document sent before the call, and the text it announced.
GetFileCall(t, path) ==
    /\ ~crashed
    /\ gf.pc = "idle"
    /\ tasks[t].pc = "serving" /\ StartsWith(path, tasks[t].root)
    /\ gf' = [IdleGf EXCEPT !.pc = "call", !.path = path, !.root = tasks[t].root,
                            !.floor = hist[path].sigVer,
                            !.want = hist[path].sigText]
    /\ UNCHANGED <<mtx, hs, hist, nOps>>
    /\ UNCHANGED <<dashVars, portVars, lspVars, posVars, linVars, httpVars, srvVars>>

\* LspFile::new, lines 54-66: outside eager mode the file on disk is opened;
\* in eager mode the files are locked for the lookup of the key and the
\* cached text is returned when there is one, the file on disk otherwise.
GetFileLookup ==
    /\ ~crashed
    /\ gf.pc = "call"
    /\ eager => mtx[LockFiles(gf.root)] = NoHolder
    /\ LET f == files[gf.root]
           hit == eager /\ FileKey(gf.path) \in DOMAIN f
       IN  gf' = [gf EXCEPT !.pc = "done",
                            !.out = IF hit THEN f[FileKey(gf.path)]
                                    ELSE OnDisk(gf.path),
                            !.got = hist[gf.path].ver]
    /\ UNCHANGED <<mtx, hs, hist, nOps>>
    /\ UNCHANGED <<dashVars, portVars, lspVars, posVars, linVars, httpVars, srvVars>>

\* read_to_end, lines 70-79: the content goes to the preview server.
GetFileReturn ==
    /\ ~crashed
    /\ gf.pc = "done"
    /\ gf' = IdleGf
    /\ UNCHANGED <<mtx, hs, hist, nOps>>
    /\ UNCHANGED <<dashVars, portVars, lspVars, posVars, linVars, httpVars, srvVars>>

\* The handler calls the model lets run at the same time, and in all.
MaxHandlers == 2

MaxOps == 2

\* No mutex is held, no call is in progress, no document has been written.
LkInit ==
    /\ mtx = [l \in Locks |-> NoHolder]
    /\ hs = [h \in 1..MaxHandlers |-> IdleHandler]
    /\ gf = IdleGf
    /\ hist = [p \in DocPaths |-> [ver |-> 0, sigVer |-> 0, sigText |-> <<>>]]
    /\ nOps = 0

\* ------------------------------------------------------------------------
\* Specifications
\* ------------------------------------------------------------------------

\* The coordinator after start_server has built its state: an empty
\* registry, an empty channel, the heartbeat task before its first tick
\* (which completes at once), no request and no subscriber.
DashInit ==
    /\ registry = <<>>
    /\ sent = <<>>
    /\ monPc = "sleep"
    /\ monSnap = <<>>
    /\ monIdx = 1
    /\ monItems = <<>>
    /\ monOk = <<>>
    /\ reqs = [r \in 1..MaxReq |-> IdleReq]
    /\ subs = [x \in 1..MaxSubs |-> NoSub]
    /\ nextTick = 0
    /\ watch = NoWatch

\* No get_port call has been made.
PortInit ==
    /\ gpPc = "idle"
    /\ gpData = <<>>
    /\ gpPort = 0
    /\ gpBind = FALSE

\* The Backend as LspService::build constructs it, for the flags given.
LspInit(e, oc) ==
    /\ eager = e
    /\ checks = oc
    /\ folders = {}
    /\ files = [r \in Roots |-> <<>>]
    /\ sigs = [r \in Roots |-> <<>>]
    /\ crashed = FALSE
    /\ phase = "new"
    /\ lastOp = [kind |-> "none", uri |-> <<>>, chs |-> <<>>]

\* No position has been drawn.
PosInit ==
    /\ pText = <<>>
    /\ pLine = 0
    /\ pChar = 0
    /\ pOut = -2

\* Nobody holds the lock of the registry; no ports request is handled.
LinInit ==
    /\ lock = Unlocked
    /\ abs = <<>>
    /\ rd = IdleRd
    /\ monPos = 1

\* No request has been served.
HttpInit == lastReq = NoRequest

\* The serve side of the Backend for the port flag given: every service is
\* created with that port, no task has been spawned, no command executed.
SrvInit(base, b) ==
    /\ svcPort = [r \in Roots |-> base]
    /\ tasks = <<>>
    /\ threads = {}
    /\ down = FALSE
    /\ busy = b
    /\ opened = <<>>
    /\ cmdRes = NoResult
    /\ offer = NoCommand

\* --- Spec: the registry, the register handler and the heartbeat task ---

Init ==
    /\ DashInit
    /\ target \in [Urls -> Statuses]
    /\ PortInit
    /\ LinInit
    /\ HttpInit
    /\ SrvInit(DefaultPort, {})
    /\ LkInit
    /\ LspInit(FALSE, FALSE)
    /\ PosInit

\* The steps that publish, kept within the bounds of the model.
BoundedCommit(r, maxReg, maxEvents) ==
    /\ RegisterCommit(r)
    /\ Len(registry') <= maxReg
    /\ Len(sent') <= maxEvents

BoundedReconcile(maxEvents) ==
    /\ MonitorReconcile
    /\ Len(sent') <= maxEvents

Next ==
    \/ \E u \in Urls, st \in Statuses : SetTarget(u, st)
    \/ \E r \in 1..MaxReq, c \in Candidates : RegisterProbe(r, c[1], NoServer, c[2])
    \/ \E r \in 1..MaxReq : RegisterProbe(r, "demo", BadServer, 4001)
    \/ \E r \in 1..MaxReq : BoundedCommit(r, MaxReg, MaxEvents)
    \/ MonitorTick
    \/ MonitorProbe
    \/ BoundedReconcile(MaxEvents)

Spec == Init /\ [][Next]_vars

\* --- SpecPos: get_byte_index_from_position on drawn inputs ---

\* Longest drawn text, in scalars.
MaxLen == 3

\* The scalars of the drawn texts.
Alphabet == {"a", NL, E2}

\* The texts of at most n scalars.
TextsUpTo(n) == UNION {[1..k -> Alphabet] : k \in 0..n}

\* The drawn lines and characters.
PosLines == 0..2
PosChars == 0..3

\* The text "ab\ncd".
AbCd == <<"a", "b", NL, "c", "d">>

InitPos ==
    /\ DashInit
    /\ target = [u \in Urls |-> "down"]
    /\ PortInit
    /\ LinInit
    /\ HttpInit
    /\ SrvInit(DefaultPort, {})
    /\ LkInit
    /\ \E oc \in BOOLEAN : LspInit(TRUE, oc)
    /\ pText \in TextsUpTo(MaxLen) \cup {AbCd}
    /\ pLine \in PosLines
    /\ pChar \in PosChars
    /\ pOut = -2

NextPos == ComputeOffset

SpecPos == InitPos /\ [][NextPos]_vars

\* --- SpecLsp: the editor notifications ---

InitLsp ==
    /\ DashInit
    /\ target = [u \in Urls |-> "down"]
    /\ PortInit
    /\ LinInit
    /\ HttpInit
    /\ SrvInit(DefaultPort, {})
    /\ LkInit
    /\ \E e \in BOOLEAN, oc \in BOOLEAN : LspInit(e, oc)
    /\ PosInit

\* The lists of one to n changes.
ChangeLists(n) == UNION {[1..k -> Changes] : k \in 1..n}

\* The notifications, kept within the bounds of the model.
SignalsBounded == \A r \in Roots : Len(sigs'[r]) <= MaxSignals

BoundedDidOpen(uri, content) == DidOpen(uri, content) /\ SignalsBounded

BoundedDidSave(uri) == DidSave(uri) /\ SignalsBounded

BoundedDidChange(uri, chs) ==
    /\ DidChange(uri, chs)
    /\ SignalsBounded
    /\ \A r \in Roots : \A u \in DOMAIN files'[r] : Len(files'[r][u]) <= MaxDocLen

NextLsp ==
    \/ \E fs \in SUBSET Roots : Initialize(fs)
    \/ \E u \in Uris, t \in OpenTexts : BoundedDidOpen(u, t)
    \/ \E u \in Uris : BoundedDidSave(u)
    \/ \E u \in Uris, chs \in ChangeLists(MaxChanges) : BoundedDidChange(u, chs)
    \/ \E u \in Uris : DidClose(u)

SpecLsp == InitLsp /\ [][NextLsp]_vars

\* ------------------------------------------------------------------------
\* Properties of the registry (Spec)
\* ------------------------------------------------------------------------

\* The step that ends a heartbeat cycle.
Reconciles == monPc = "probe" /\ monPc' = "sleep"

\* The entries pushed to the registry since the cycle took its snapshot.
AddedSinceSnapshot == SubSeq(registry, Len(monSnap) + 1, Len(registry))

\* C1: a heartbeat cycle evicts exactly the unreachable entries.  When the
\* cycle's snapshot holds two different entries, the probe of one (A)
\* succeeded, the probe of the other (B) failed and no entry was registered
\* during the cycle, then after the reconciliation the registry holds A
\* alone and the cycle has published exactly one event, with added = false
\* and the name and url of B.
C1_EvictionExact ==
    [][(/\ Reconciles
        /\ registry = monSnap
        /\ Len(monSnap) = 2
        /\ monSnap[1] # monSnap[2])
       => \A a, b \in 1..2 :
            (a # b /\ monOk[a] /\ ~monOk[b])
            => /\ registry' = <<monSnap[a]>>
               /\ sent' = Append(sent, SentOf(FALSE, monSnap[b]))]_vars

\* C1 witness: a cycle over a snapshot of a reachable and an unreachable
\* entry has reconciled; the reachable entry is what is left and the last
\* event reports the removal of the other.
C1_Witness ==
    /\ monPc = "sleep"
    /\ Len(monSnap) = 2
    /\ monSnap[1] # monSnap[2]
    /\ monOk = <<TRUE, FALSE>>
    /\ registry = <<monSnap[1]>>
    /\ sent # <<>>
    /\ sent[Len(sent)] = SentOf(FALSE, monSnap[2])

\* C2: every entry added to the registry after a cycle took its snapshot is
\* still in the registry when the cycle has reconciled, whatever its name
\* and url: the reconciliation leaves at least as many copies of every entry
\* as were pushed since the snapshot.
C2_AddedSurvive ==
    [][Reconciles
       => \A e \in Entries : Count(registry', e) >= Count(AddedSinceSnapshot, e)]_vars

\* C8: register is decided by the probe of the candidate.  The probe
\* succeeds exactly when the candidate answers, and probing changes neither
\* the registry nor the events.  After a failed probe the request gets the
\* empty response and nothing else happens; after a successful probe the
\* handler ends with the entry in the registry, exactly one event (added =
\* true, for that entry) published and the empty response.
C8_RegisterDecidedByProbe ==
    [][\A r \in DOMAIN reqs :
         /\ (reqs[r].pc = "idle" /\ reqs'[r] # reqs[r])
            => \A c \in Candidates :
                 RegisterProbe(r, c[1], NoServer, c[2])
                 => /\ registry' = registry /\ sent' = sent
                    /\ IF target[MkUrl(NoServer, c[2])] = "down"
                       THEN reqs'[r].pc = "idle" /\ reqs'[r].resp = "empty"
                       ELSE /\ reqs'[r].pc = "commit"
                            /\ Entry(reqs'[r].name, reqs'[r].url)
                                  = Entry(c[1], MkUrl(NoServer, c[2]))
         /\ (reqs[r].pc = "commit" /\ reqs'[r].pc = "idle")
            => LET e == Entry(reqs[r].name, reqs[r].url)
               IN  /\ Count(registry', e) > 0
                   /\ sent' = Append(sent, SentOf(TRUE, e))
                   /\ reqs'[r].resp = "empty"]_vars

\* C8 witness: a register request whose probe succeeded has been answered
\* with the empty response; its entry is in the registry and the last event
\* announces it.
C8_Witness ==
    \E r \in DOMAIN reqs, e \in Entries :
        /\ reqs[r].pc = "idle" /\ reqs[r].resp = "empty"
        /\ Count(registry, e) = 1
        /\ sent # <<>>
        /\ sent[Len(sent)] = SentOf(TRUE, e)

\* C9: registry add is idempotent: the registry holds at most one entry for
\* each (name, url) pair.
C9_NoDuplicates == \A e \in Entries : Count(registry, e) <= 1

\* C12: the liveness probe is true only for a target that answers its ping
\* path with a success status.  A heartbeat probe records true exactly for
\* such a target, and register goes on to its commit only for such a
\* target, so a target that answers with a non-success status is neither
\* registered nor kept.
C12_ProbeNeedsSuccess ==
    [][/\ (monPc = "probe" /\ monPc' = "probe" /\ monIdx' = monIdx + 1)
          => monOk'[monIdx] = (target[monSnap[monIdx].url] = "ok")
       /\ \A r \in DOMAIN reqs :
            (reqs[r].pc = "idle" /\ reqs'[r].pc = "commit")
            => target[reqs'[r].url] = "ok"]_vars

\* C18: in every heartbeat cycle the number of events with added = false
\* the cycle publishes is the number of entries it removes from the
\* registry, one event per removed entry with that entry's name and url,
\* and they are published in the step that removes the entries.
C18_OneEventPerRemoval ==
    [][Reconciles
       => /\ Len(sent') - Len(sent) = Len(registry) - Len(registry')
          /\ \A e \in Entries :
                Count(sent', SentOf(FALSE, e)) - Count(sent, SentOf(FALSE, e))
                  = Count(registry, e) - Count(registry', e)]_vars

\* ------------------------------------------------------------------------
\* Port allocation (SpecPort)
\* ------------------------------------------------------------------------

InitPort ==
    /\ DashInit
    /\ target \in [Urls -> Statuses]
    /\ PortInit
    /\ LinInit
    /\ HttpInit
    /\ SrvInit(DefaultPort, {})
    /\ LkInit
    /\ LspInit(FALSE, FALSE)
    /\ PosInit

NextPort ==
    \/ \E u \in Urls, st \in Statuses : SetTarget(u, st)
    \/ \E r \in 1..MaxReq, p \in Ports : RegisterProbe(r, "demo", NoServer, p)
    \/ \E r \in 1..MaxReq : BoundedCommit(r, MaxReg, MaxEvents)
    \/ MonitorTick
    \/ MonitorProbe
    \/ BoundedReconcile(MaxEvents)
    \/ \E b \in Bases : GetPortFetch(b)
    \/ \E ok \in BOOLEAN : GetPortStep(ok)
    \/ GetPortReturn

SpecPort == InitPort /\ [][NextPort]_vars

\* C5: the port get_port returns is not the port of any entry of the
\* list_ports response it fetched, and a local bind on it succeeded when it
\* was selected.
C5_PortFresh ==
    gpPc = "done"
    => /\ \A i \in 1..Len(gpData) : PortOfString(gpData[i][2]) # gpPort
       /\ gpBind

\* ------------------------------------------------------------------------
\* The event stream (SpecWs)
\* ------------------------------------------------------------------------

\* Most events the model lets the coordinator publish to the stream.
MaxWsEvents == 12

\* In SpecWs the registry holds one entry at most: the events of the stream
\* are the registrations and evictions of DemoEntry, in turn.
InitWs ==
    /\ DashInit
    /\ target = [u \in Urls |-> "ok"]
    /\ PortInit
    /\ LinInit
    /\ HttpInit
    /\ SrvInit(DefaultPort, {})
    /\ LkInit
    /\ LspInit(FALSE, FALSE)
    /\ PosInit

NextWs ==
    \/ \E st \in Statuses : SetTarget(DemoEntry.url, st)
    \/ \E r \in 1..MaxReq : RegisterProbe(r, DemoEntry.name, NoServer, DemoEntry.url.port)
    \/ \E r \in 1..MaxReq : BoundedCommit(r, 1, MaxWsEvents)
    \/ MonitorTick
    \/ MonitorProbe
    \/ BoundedReconcile(MaxWsEvents)
    \/ \E x \in 1..MaxSubs : WsConnect(x)
    \/ \E x \in 1..MaxSubs : WsRecvOk(x)
    \/ \E x \in 1..MaxSubs : WsRecvLagged(x)
    \/ \E x \in 1..MaxSubs : WsInbound(x)
    \/ \E x \in 1..MaxSubs : ClientClose(x)
    \/ \E x \in 1..MaxSubs : WsStreamEnd(x)

SpecWs == InitWs /\ [][NextWs]_vars

\* C7: a subscriber that has fallen behind never stalls.  Whenever the
\* stream of a subscriber is open on both sides and the channel retains
\* events it has not received, its handler can take a receive step by
\* itself, without an inbound frame from the client.
C7_NeverStalls ==
    \A x \in DOMAIN subs :
        (subs[x].pc = "open" /\ ~subs[x].closed /\ Pending(x))
        => ENABLED (WsRecvOk(x) \/ WsRecvLagged(x))

\* --- SpecWsFair: SpecWs with a handler that takes every step open to it ---

SpecWsFair ==
    /\ InitWs
    /\ [][NextWs]_vars
    /\ \A x \in 1..MaxSubs :
          /\ WF_vars(WsRecvOk(x))
          /\ WF_vars(WsRecvLagged(x))
          /\ WF_vars(WsStreamEnd(x))

\* C19: the handler of a subscriber terminates when the client closes the
\* stream: once the client has closed its side the loop of that subscriber
\* eventually exits, also when no event is published afterwards.
C19_HandlerExits ==
    \A x \in 1..MaxSubs : subs[x].closed ~> (subs[x].pc = "exited")

\* ------------------------------------------------------------------------
\* Eviction in time (SpecTimed)
\* ------------------------------------------------------------------------

\* The amounts of time that pass in one step.
TimeSteps == {20, 60}

InitTimed ==
    /\ DashInit
    /\ target \in [Urls -> Statuses]
    /\ PortInit
    /\ LinInit
    /\ HttpInit
    /\ SrvInit(DefaultPort, {})
    /\ LkInit
    /\ LspInit(FALSE, FALSE)
    /\ PosInit

NextTimed ==
    \/ \E u \in Urls, st \in Statuses : SetTarget(u, st)
    \/ \E r \in 1..MaxReq : RegisterProbe(r, "demo", NoServer, 4001)
    \/ \E r \in 1..MaxReq : RegisterProbe(r, "other", NoServer, 4002)
    \/ \E r \in 1..MaxReq : BoundedCommit(r, MaxReg, MaxEvents)
    \/ TickDue
    \/ MonitorProbe
    \/ BoundedReconcile(MaxEvents)
    \/ \E d \in TimeSteps : Advance(d)
    \/ \E x \in 1..MaxSubs : WsConnect(x)
    \/ \E x \in 1..MaxSubs : WsRecvOk(x)
    \/ \E x \in 1..MaxSubs : ClientClose(x)
    \/ \E x \in 1..MaxSubs : WsStreamEnd(x)

SpecTimed == InitTimed /\ [][NextTimed]_vars

\* The events a subscriber has received that report the removal of
\* DemoEntry after its last registration.
RemovalsReceived(x) ==
    {k \in 1..Len(subs[x].got) :
        /\ sent[subs[x].got[k]] = SentOf(FALSE, DemoEntry)
        /\ \A i \in 1..Len(sent) :
              sent[i] = SentOf(TRUE, DemoEntry) => i < subs[x].got[k]}

\* C10: bounded eviction.  Once more than one heartbeat period has passed
\* since the registered instance "demo" stopped answering, list_ports no
\* longer contains "demo" and every subscriber that was connected when it
\* stopped (and still is) has received the event with added = false for it.
C10_EvictedWithinPeriod ==
    watch.age > Period
    => /\ \A i \in 1..Len(registry) : PortsResponse(registry)[i][1] # "demo"
       /\ \A x \in watch.subs :
            (subs[x].pc = "open" /\ ~subs[x].closed) => RemovalsReceived(x) # {}

\* ------------------------------------------------------------------------
\* The registry under concurrent requests (SpecLin)
\* ------------------------------------------------------------------------

\* Most events the model lets the coordinator publish in SpecLin.
MaxLinEvents == 3

\* The (name, port) pairs of the register requests of SpecLin.
LinCandidates == {<<"demo", 4001>>, <<"other", 4002>>}

InitLin ==
    /\ DashInit
    /\ target = [u \in Urls |-> "ok"]
    /\ PortInit
    /\ LinInit
    /\ HttpInit
    /\ SrvInit(DefaultPort, {})
    /\ LkInit
    /\ LspInit(FALSE, FALSE)
    /\ PosInit

\* The steps that take the write lock, kept within the bounds of the model.
BoundedRegLock(r) ==
    /\ RegLock(r)
    /\ Len(registry) < MaxReg
    /\ Len(sent) < MaxLinEvents

BoundedMonLock ==
    /\ MonLock
    /\ Len(sent) + Len(monItems) <= MaxLinEvents

NextLin ==
    \/ \E u \in Urls, st \in {"ok", "down"} : SetTarget(u, st)
    \/ \E r \in 1..MaxReq, c \in LinCandidates : RegisterProbe(r, c[1], NoServer, c[2])
    \/ \E r \in 1..MaxReq : BoundedRegLock(r)
    \/ \E r \in 1..MaxReq : RegPush(r)
    \/ \E r \in 1..MaxReq : RegSend(r)
    \/ MonSnapshot
    \/ MonitorProbe
    \/ BoundedMonLock
    \/ MonRetainStep
    \/ MonSend
    \/ RdLock
    \/ RdRead
    \/ RdReturn

SpecLin == InitLin /\ [][NextLin]_vars

\* C11: registry mutations are linearizable.  abs is the table obtained by
\* replaying the adds and removes one after the other, each at a moment
\* between its start and its end.  Every ports response is the response for
\* that table at the moment of the read, and whenever no writer holds the
\* lock the registry is that table: no add is lost, no entry appears twice
\* for one add, and no read sees a removal half done.
C11_Linearizable ==
    /\ rd.pc = "done" => rd.out = rd.seen
    /\ lock.writer = "none" => registry = abs

\* C11 witness: a ports request has been answered after two adds and a
\* removal; the response lists the entry that is left.
C11_Witness ==
    /\ rd.pc = "done"
    /\ Len(rd.out) = 1
    /\ Len(sent) >= 3
    /\ \E i \in 1..Len(sent) : ~sent[i].added


\* ------------------------------------------------------------------------
\* The loopback restriction (SpecHttp)
\* ------------------------------------------------------------------------

InitHttp ==
    /\ DashInit
    /\ target = [u \in Urls |-> "ok"]
    /\ PortInit
    /\ LinInit
    /\ HttpInit
    /\ SrvInit(DefaultPort, {})
    /\ LkInit
    /\ LspInit(FALSE, FALSE)
    /\ PosInit

\* The registry of SpecHttp holds one entry at most.
NextHttp ==
    \/ \E st \in {"ok", "down"} : SetTarget(DemoEntry.url, st)
    \/ \E req \in Requests : Serve(req)
    \/ \E r \in 1..MaxReq : BoundedCommit(r, 1, MaxEvents)
    \/ \E x \in 1..MaxSubs : WsRecvOk(x)

SpecHttp == InitHttp /\ [][NextHttp]_vars

\* C13: the loopback restriction.  A request whose client address is not a
\* loopback address reaches no handler (it is routed to none of ping,
\* register, ports, index and web_socket), and serving it changes neither
\* the registry, nor the published events, nor the subscribers, nor the
\* register requests being handled.
C13_LoopbackOnly ==
    [][LET req == [method |-> lastReq'.method, path |-> lastReq'.path,
                   ip |-> lastReq'.ip]
       IN  (req \in Requests /\ req.ip # "loopback" /\ Serve(req))
           => /\ lastReq'.route = "none"
              /\ registry' = registry
              /\ sent' = sent
              /\ subs' = subs
              /\ reqs' = reqs]_vars

\* C13 witness: a POST /register from a remote address has been answered
\* without reaching a handler, in a coordinator that has registered an
\* instance for a loopback client.
C13_Witness ==
    /\ lastReq.ip = "remote"
    /\ lastReq.method = "POST"
    /\ lastReq.path = "/register"
    /\ lastReq.route = "none"
    /\ registry # <<>>

\* ------------------------------------------------------------------------
\* The serve tasks and the commands (SpecSrv, SpecCmd)
\* ------------------------------------------------------------------------

\* The Backend for a port flag, with that port free or taken by another
\* process, in either build.
InitSrv ==
    /\ DashInit
    /\ target = [u \in Urls |-> "down"]
    /\ PortInit
    /\ LinInit
    /\ HttpInit
    /\ \E base \in PortBases : \E b \in {{}, {base}} : SrvInit(base, b)
    /\ LkInit
    /\ \E oc \in BOOLEAN : LspInit(FALSE, oc)
    /\ PosInit

\* The ports the model follows: up to MaxBumps increments from the port
\* flag, through the wrap-around.
PortsFollowed ==
    (DefaultPort..(DefaultPort + MaxBumps)) \cup {MaxU16} \cup (0..(MaxBumps - 1))

\* The steps that grow the state, kept within the bounds of the model.
BoundedInitialized ==
    /\ Initialized
    /\ Len(tasks') <= MaxInit * Cardinality(folders)

BoundedIncrement(t) ==
    /\ PortIncrement(t)
    /\ \A r \in Roots : svcPort'[r] \in PortsFollowed

BoundedExecute(command, arguments, launch) ==
    /\ ExecuteCommand(command, arguments, launch)
    /\ Len(opened') <= MaxOpened

NextSrv ==
    \/ \E fs \in SUBSET Roots : Initialize(fs)
    \/ BoundedInitialized
    \/ \E t \in DOMAIN tasks : ServeAttempt(t)
    \/ \E t \in DOMAIN tasks : ServeEnd(t)
    \/ \E t \in DOMAIN tasks : BoundedIncrement(t)
    \/ Shutdown

SpecSrv == InitSrv /\ [][NextSrv]_vars

\* --- SpecCmd: the code action and the command, beside the serve tasks of
\* one initialized notification ---

SpawnOnce ==
    /\ Initialized
    /\ tasks = <<>>

NextCmd ==
    \/ \E fs \in SUBSET Roots : Initialize(fs)
    \/ SpawnOnce
    \/ \E t \in DOMAIN tasks : ServeAttempt(t)
    \/ \E t \in DOMAIN tasks : BoundedIncrement(t)
    \/ \E u \in Uris : CodeAction(u)
    \/ \E c \in Commands, a \in ArgLists, l \in BOOLEAN : BoundedExecute(c, a, l)

SpecCmd == InitSrv /\ [][NextCmd]_vars

\* Task t makes a serve call in this step.
Attempts(t) == tasks[t].pc = "start" /\ tasks'[t].pc \in {"serving", "returned"}

\* C14: bind-conflict retry.  When the last serve call of a task failed on
\* port p because the port was in use, the task's next call uses p + 1; no
\* task stops retrying by itself; a workspace's port changes only by one
\* such step, after a call of one of its tasks failed on a port in use; and
\* tasks of different workspaces never serve on the same port.
C14_RetryNextPort ==
    [][/\ \A t \in DOMAIN tasks :
            /\ (Attempts(t) /\ tasks[t].why = "in_use")
               => tasks'[t].p = tasks[t].p + 1
            /\ tasks'[t].pc # "panicked"
       /\ \A r \in Roots :
            svcPort'[r] # svcPort[r]
            => /\ svcPort'[r] = svcPort[r] + 1
               /\ \E t \in DOMAIN tasks :
                    /\ tasks[t].root = r
                    /\ tasks[t].pc = "returned" /\ tasks[t].why = "in_use"
                    /\ tasks'[t].pc = "start"
       /\ \A t, u \in DOMAIN tasks :
            (/\ tasks'[t].pc = "serving" /\ tasks'[u].pc = "serving"
             /\ tasks'[t].root # tasks'[u].root)
            => tasks'[t].p # tasks'[u].p]_vars

\* C15: after shutdown has returned no task spawned by an initialized
\* notification makes a serve call or changes a port: the tasks and the
\* ports stay as they are.
C15_NoTaskAfterShutdown ==
    [][down => (tasks' = tasks /\ svcPort' = svcPort)]_vars

\* C17: every command the server offers is accepted.  Executing the command
\* of the last code action with the arguments it carries, when the browser
\* launch succeeds, returns success and opens the url of that workspace's
\* port; and a request that is answered with an error opens nothing.
C17_OfferedCommandAccepted ==
    [][/\ (/\ cmdRes' # cmdRes
           /\ offer # NoCommand
           /\ cmdRes'.command = offer.command
           /\ cmdRes'.arguments = offer.arguments
           /\ cmdRes'.launch)
          => /\ cmdRes'.result = "ok"
             /\ opened' = Append(opened, FormatLocal(svcPort[offer.arguments[1]]))
       /\ (cmdRes' # cmdRes /\ cmdRes'.result # "ok")
          => (opened' = opened /\ svcPort' = svcPort /\ tasks' = tasks)]_vars

\* ------------------------------------------------------------------------
\* Positions and edits (SpecPos, SpecLsp)
\* ------------------------------------------------------------------------

\* The scalar index (from 0) at which line `line` of s starts: 0 for line 0,
\* otherwise the index after the line-th newline.
RuleLineStart(s, line) ==
    IF line = 0 THEN 0
    ELSE CHOOSE k \in 1..Len(s) :
            /\ s[k] = NL
            /\ Cardinality({i \in 1..k : s[i] = NL}) = line

\* The offset the translation rule gives on a text with at least one scalar
\* and a line the text has: `character` scalars after the start of the line,
\* and the offset of the last scalar when that is beyond the end of the text.
RuleOffset(s, line, character) ==
    LET idx == RuleLineStart(s, line) + character
    IN  IF idx <= Len(s) THEN Off(s, idx + 1) ELSE Off(s, Len(s))

\* The positions the rule is stated for.
RuleApplies(s, line) == s # <<>> /\ line <= CountNL(s)

\* C4: get_byte_index_from_position returns the offset of the rule: the
\* start of the target line advanced by `character` scalars, clamped to the
\* last scalar; "ab\ncd" (1,1) gives 4 and (0,0) gives 0.
C4_OffsetMatchesRule ==
    (pOut # -2 /\ RuleApplies(pText, pLine))
    => pOut = RuleOffset(pText, pLine, pChar)

\* The text the rule gives for a ranged change.
RuleReplace(s, ch) ==
    ReplaceRange(s, RuleOffset(s, ch.range.sl, ch.range.sc),
                    RuleOffset(s, ch.range.el, ch.range.ec), ch.text).text

\* The step is a did_change that applied the single ranged change ch to the
\* text cached for uri in the workspace root.
AppliesRanged(root, uri, ch) ==
    /\ lastOp'.kind = "did_change" /\ lastOp'.uri = uri /\ lastOp'.chs = <<ch>>
    /\ lastOp' # lastOp \/ files' # files \/ sigs' # sigs \/ crashed' # crashed
    /\ root \in GetWorkspaceForFile(uri)
    /\ uri \in DOMAIN files[root]
    /\ ch.range # NoRange
    /\ RuleApplies(files[root][uri], ch.range.sl)
    /\ RuleApplies(files[root][uri], ch.range.el)

\* C3: in eager mode a did_change with a ranged edit on a cached document
\* replaces exactly the span from the start position to the end position
\* with the edit's text, and raises exactly one reload signal; "hello" with
\* range (0,0)-(0,5) and text "bye" becomes "bye".
C3_RangeEditReplacesSpan ==
    [][\A root \in Roots, uri \in Uris, ch \in Changes :
         AppliesRanged(root, uri, ch)
         => /\ files'[root][uri] = RuleReplace(files[root][uri], ch)
            /\ sigs'[root] = Append(sigs[root], RelPath(uri, root))]_vars

\* The step handles an editor notification of the given kind for a uri
\* inside the workspace root.
Handles(kind, root) ==
    /\ lastOp'.kind = kind
    /\ lastOp' # lastOp \/ files' # files \/ sigs' # sigs \/ crashed' # crashed
    /\ root \in GetWorkspaceForFile(lastOp'.uri)

\* The step raises n signals on the channel of root and none elsewhere.
Raises(n, root) ==
    /\ Len(sigs'[root]) = Len(sigs[root]) + n
    /\ \A r \in Roots \ {root} : sigs'[r] = sigs[r]

\* C6: reload signals are gated by the mode.  In eager mode every did_open,
\* did_change and did_save for a file inside a workspace raises exactly one
\* signal on that workspace's channel; in lazy mode did_save raises exactly
\* one and did_open and did_change raise none; did_close raises none.
C6_SignalGating ==
    [][\A root \in Roots :
         /\ Handles("did_open", root) => Raises(IF eager THEN 1 ELSE 0, root)
         /\ Handles("did_change", root) => Raises(IF eager THEN 1 ELSE 0, root)
         /\ Handles("did_save", root) => Raises(1, root)
         /\ Handles("did_close", root) => Raises(0, root)]_vars

\* C20: did_change never faults in eager mode.  Whatever the cached text,
\* a did_change whose ranged changes all have a start position that is not
\* after the end position is applied without a panic.
PositionsOrdered(ch) ==
    \/ ch.range = NoRange
    \/ ch.range.sl < ch.range.el
    \/ ch.range.sl = ch.range.el /\ ch.range.sc <= ch.range.ec

C20_DidChangeNeverFaults ==
    [][(/\ eager
        /\ lastOp'.kind = "did_change"
        /\ \A i \in 1..Len(lastOp'.chs) : PositionsOrdered(lastOp'.chs[i]))
       => crashed' = crashed]_vars

\* ------------------------------------------------------------------------
\* Routing (SpecRoute)
\* ------------------------------------------------------------------------

\* The uris of SpecRoute: those of Uris and one whose first component only
\* begins like a root.
RouteUris == Uris \cup {<<"rootx", "a.txt">>}

\* The changes of SpecRoute: a full replacement and an insertion.
RouteChanges == {[range |-> NoRange, text |-> <<"b", "y", "e">>],
                 [range |-> Range(1, 0, 1, 1), text |-> <<>>]}

NextRoute ==
    \/ \E fs \in SUBSET Roots : Initialize(fs)
    \/ \E u \in RouteUris, t \in {<<"a", "b", NL, "c", "d">>, <<>>} : BoundedDidOpen(u, t)
    \/ \E u \in RouteUris : BoundedDidSave(u)
    \/ \E u \in RouteUris, ch \in RouteChanges : BoundedDidChange(u, <<ch>>)
    \/ \E u \in RouteUris : DidClose(u)

SpecRoute == InitLsp /\ [][NextRoute]_vars

\* The step handles a document notification.
HandlesDocument ==
    /\ lastOp'.kind \in {"did_open", "did_change", "did_save", "did_close"}
    /\ lastOp' # lastOp \/ files' # files \/ sigs' # sigs \/ crashed' # crashed

\* C16: routing and isolation.  A document notification for a path under
\* no workspace root changes no cache and raises no signal; one for a path
\* under exactly one root leaves the cache and the channel of every other
\* workspace as they are.
C16_RoutingIsolation ==
    [][HandlesDocument
       => LET under == {r \in folders : StartsWith(lastOp'.uri, r)}
          IN  /\ under = {} => (files' = files /\ sigs' = sigs)
              /\ \A r \in under :
                    under = {r}
                    => \A o \in Roots \ {r} :
                          files'[o] = files[o] /\ sigs'[o] = sigs[o]]_vars

\* C16 witness: with both workspaces open in eager mode a did_open for a
\* file of the first has been handled: its text is cached and signalled in
\* that workspace, and the other workspace has neither.
C16_Witness ==
    /\ eager
    /\ folders = Roots
    /\ lastOp.kind = "did_open"
    /\ lastOp.uri = <<"root", "a.txt">>
    /\ <<"root", "a.txt">> \in DOMAIN files[<<"root">>]
    /\ sigs[<<"root">>] # <<>>
    /\ files[<<"other">>] = <<>>
    /\ sigs[<<"other">>] = <<>>

\* --- SpecLock: the handlers, the serve tasks and get_file, lock by lock ---

InitLk ==
    /\ DashInit
    /\ target = [u \in Urls |-> "down"]
    /\ PortInit
    /\ LinInit
    /\ HttpInit
    /\ SrvInit(DefaultPort, {})
    /\ LkInit
    /\ \E e \in BOOLEAN, oc \in BOOLEAN : LspInit(e, oc)
    /\ PosInit

\* The texts and the change lists of SpecLock.
LockTexts == {<<"h", "i">>, <<>>}

LockChanges == {<<ch>> : ch \in RouteChanges}

\* The slot a new call takes: the first one that is free.
FreeSlot(h) ==
    /\ hs[h].pc \in {"idle", "done"}
    /\ \A g \in 1..(h - 1) : hs[g].pc \notin {"idle", "done"}

\* The calls of the editor, kept within the bounds of the model.
BoundedReceive(h) ==
    /\ nOps < MaxOps
    /\ FreeSlot(h)
    /\ \/ \E d \in DocPaths, t \in LockTexts :
              Receive(h, "did_open", d, t, <<>>, "", <<>>)
       \/ \E d \in DocPaths, chs \in LockChanges :
              Receive(h, "did_change", d, <<>>, chs, "", <<>>)
       \/ \E d \in DocPaths, k \in {"did_close", "did_save", "code_action"} :
              Receive(h, k, d, <<>>, <<>>, "", <<>>)
       \/ \E c \in {"openProjectsWeb", "openProjectWeb"},
             a \in {<<>>, <<<<"root">>>>, <<<<"nowhere">>>>} :
              Receive(h, "execute_command", <<>>, <<>>, <<>>, c, a)
       \/ /\ Len(tasks) + Cardinality({g \in 1..MaxHandlers :
                                          hs[g].kind = "initialized"}) < MaxInit
          /\ Receive(h, "initialized", <<>>, <<>>, <<>>, "", <<>>)

\* The steps of the handler call in slot h.
HandlerStep(h) ==
    \/ GwfLock(h)
    \/ GwfReturn(h)
    \/ FilesLock(h)
    \/ CcfLock(h)
    \/ CcfSend(h)
    \/ CodeActionPort(h)
    \/ ExecLock(h)
    \/ \E launch \in BOOLEAN : ExecPort(h, launch)
    \/ InitLock(h)
    \/ InitSpawn(h)
    \/ InitThreads(h)

\* The steps of task t on the port; the model follows MaxBumps increments.
TaskStep(t) ==
    /\ t \in DOMAIN tasks
    /\ \/ /\ TaskPortLock(t)
          /\ tasks[t].pc = "returned" =>
                svcPort[tasks[t].root] < DefaultPort + MaxBumps
       \/ TaskPortRead(t)
       \/ TaskPortAdd(t)

NextLock ==
    \/ Initialize({<<"root">>})
    \/ \E h \in 1..MaxHandlers : BoundedReceive(h)
    \/ \E h \in 1..MaxHandlers : HandlerStep(h)
    \/ \E t \in 1..MaxInit : TaskStep(t)
    \/ \E t \in DOMAIN tasks : ~crashed /\ ServeEnd(t)
    \/ \E t \in DOMAIN tasks, d \in DocPaths : GetFileCall(t, d)
    \/ GetFileLookup
    \/ GetFileReturn

SpecLock == InitLk /\ [][NextLock]_vars

\* The mutexes of tokio hand the lock to the waiters in the order in which
\* they came, and the runtime polls every task that can go on: a step that
\* is possible again and again is taken.
SpecLockFair ==
    /\ SpecLock
    /\ \A h \in 1..MaxHandlers : SF_vars(HandlerStep(h))
    /\ \A t \in 1..MaxInit : SF_vars(TaskStep(t))

\* The mutex the call in slot h is waiting for, when it waits for one.
Wants(h) ==
    CASE hs[h].pc = "start" /\ hs[h].kind \in DocKinds \cup {"initialized"} -> {LockW}
      [] hs[h].pc = "start" /\ hs[h].kind = "execute_command"
         /\ hs[h].command = "openProjectsWeb" /\ hs[h].arguments # <<>> -> {LockW}
      [] hs[h].pc = "files" -> {LockFiles(hs[h].root)}
      [] hs[h].pc = "update" /\ (eager \/ hs[h].kind = "did_save") -> {LockW}
      [] hs[h].pc = "port" -> {LockPort(hs[h].root)}
      [] hs[h].pc = "exec" /\ hs[h].arguments[1] \in folders ->
           {LockPort(hs[h].arguments[1])}
      [] hs[h].pc = "spawn" -> {LockPort(r) : r \in hs[h].left}
      [] OTHER -> {}

\* No set of calls waits in a circle: in every set of waiting calls one
\* waits for a mutex that is free or held outside the set.
NoWaitCycle ==
    \A S \in SUBSET (1..MaxHandlers) \ {{}} :
        \E h \in S : \/ Wants(h) = {}
                      \/ \E l \in Wants(h) : mtx[l] \notin {Handler(g) : g \in S}

\* C21: no deadlock among the handlers and the serve tasks: every handler
\* call that starts finishes.
C21_HandlersFinish ==
    \A h \in 1..MaxHandlers : (hs[h].pc = "start") ~> (hs[h].pc = "done")

\* C22: in eager mode, a get_file call made after the signal of an open or a
\* change of a document was sent returns the text the cache held for the
\* document after that open or change, unless the document was written
\* again in between.
C22_ReadAfterSignalIsNew ==
    (eager /\ gf.pc = "done" /\ gf.floor > 0 /\ gf.got = gf.floor)
        => gf.out = gf.want

====
